---- MODULE Spec2Model ----
(***************************************************************************)
(* Model of the mpkv note vault (src/vault): the field validators, the    *)
(* Note entity, the JSON index, the per-note content files and the        *)
(* repository operations create_note, get_note_by_title and               *)
(* delete_note_by_title, with the filesystem faults each of them can meet.*)
(*                                                                         *)
(* Strings are sequences of one-character tokens ("CR" and "LF" stand for *)
(* carriage return and line feed).  A filesystem call either takes effect *)
(* or raises OSError without effect.                                       *)
(***************************************************************************)
EXTENDS Integers, Sequences, FiniteSets, TLC

\* ------------------------------------------------------------------ bounds
\* number of ids generate_note_id may hand out in one behaviour
MaxIds == 2
\* readings of the clock in the update specification: 1..MaxClock
MaxClock == 3
\* number of processes of the concurrent specification
NumProcs == 2

\* ------------------------------------------------------- program constants
\* TitleField(max_length=100)
TitleMaxLength == 100
\* ContentField(min_length=10)
ContentMinLength == 10
\* ContentField(max_length=10000)
ContentMaxLength == 10000
\* TagsField(max_tags=20)
MaxTags == 20
\* TagsField(max_tag_length=30)
MaxTagLength == 30

\* --------------------------------------------------------------- characters
\* characters for which str.isalnum() is true
AlnumChars == {"a", "A", "b", "x", "y", "t"}
\* characters for which str.isspace() is true
SpaceChars == {" ", "CR", "LF"}

\* the string made of n copies of the character c
Rep(c, n) == [i \in 1..n |-> c]

\* ---------------------------------------------------------------- str helpers
RECURSIVE LStrip(_)
LStrip(s) ==
    IF s # <<>> /\ Head(s) \in SpaceChars THEN LStrip(Tail(s)) ELSE s

RECURSIVE RStrip(_)
RStrip(s) ==
    IF s # <<>> /\ s[Len(s)] \in SpaceChars
    THEN RStrip(SubSeq(s, 1, Len(s) - 1))
    ELSE s

\* str.strip(): leading and trailing whitespace removed
Strip(s) == RStrip(LStrip(s))

RECURSIVE SplitComma(_)
\* str.split(","): the pieces between commas, empty pieces included
SplitComma(s) ==
    IF \E i \in 1..Len(s) : s[i] = ","
    THEN LET i == CHOOSE k \in 1..Len(s) :
                     s[k] = "," /\ \A j \in 1..(k - 1) : s[j] # ","
         IN  <<SubSeq(s, 1, i - 1)>> \o SplitComma(SubSeq(s, i + 1, Len(s)))
    ELSE <<s>>

\* [tag.strip() for tag in tags]
StripAll(seq) == [i \in 1..Len(seq) |-> Strip(seq[i])]

RECURSIVE DropEmpty(_)
\* [tag for tag in tags if tag]
DropEmpty(seq) ==
    IF seq = <<>> THEN <<>>
    ELSE IF Head(seq) = <<>> THEN DropEmpty(Tail(seq))
         ELSE <<Head(seq)>> \o DropEmpty(Tail(seq))

\* ---------------------------------------------------------------- validators
\* The value None of an optional argument, and a tags value.
NoTags == [kind |-> "none", val |-> <<>>]
TagList(l) == [kind |-> "list", val |-> l]
TagStr(s) == [kind |-> "str", val |-> s]

\* TitleField.validate with len(value) >= max_length as the length test
TitleValidExclusive(title) ==
    /\ Len(title) < TitleMaxLength
    /\ \A i \in 1..Len(title) : title[i] \in AlnumChars \cup SpaceChars

\* TitleField.validate: a string of at most max_length characters, each
\* alphanumeric or whitespace (the empty string passes)
TitleValid(title) ==
    /\ Len(title) <= TitleMaxLength
    /\ \A i \in 1..Len(title) : title[i] \in AlnumChars \cup SpaceChars

\* ContentField.validate with len(value) <= min_length as the lower test
ContentValidExclusive(content) ==
    /\ Len(content) > ContentMinLength
    /\ Len(content) <= ContentMaxLength

\* ContentField.validate: min_length <= len <= max_length
ContentValid(content) ==
    /\ Len(content) >= ContentMinLength
    /\ Len(content) <= ContentMaxLength

\* TagsField.validate that keeps the empty tags
TagsNormaliseKeepEmpty(tags) ==
    IF tags.kind = "str"
    THEN StripAll(SplitComma(tags.val))
    ELSE StripAll(tags.val)

\* TagsField.validate up to the empty-tag filter: the normalised tag list
TagsNormalise(tags) ==
    IF tags.kind = "str"
    THEN DropEmpty(StripAll(SplitComma(tags.val)))
    ELSE DropEmpty(StripAll(tags.val))

\* TagsField.validate: the count and length checks
TagsValid(tags) ==
    LET l == TagsNormalise(tags)
    IN  /\ Len(l) <= MaxTags
        /\ \A i \in 1..Len(l) : Len(l[i]) <= MaxTagLength

\* BaseField.__set__ for tags (required=False): None is stored as None,
\* any other value is stored as the validated list
TagsStored(tags) ==
    IF tags.kind = "none" THEN NoTags ELSE TagList(TagsNormalise(tags))

\* ---------------------------------------------------------------------- Note
\* Note.__init__ default filename: f"{self.id}.md"
DefaultFilename(id) == [stem |-> id, ext |-> ".md"]

\* _get_note_file_path: the content file of an id is notes/<id>.txt
ContentFileName(id) == [stem |-> id, ext |-> ".txt"]

\* Note.__init__ accepts the arguments (title and content are required
\* strings here; tags may be None)
NoteValid(title, content, tags) ==
    /\ TitleValid(title)
    /\ ContentValid(content)
    /\ tags.kind = "none" \/ TagsValid(tags)

\* Note.__init__ with an id and no filename
Note(id, title, content, tags) ==
    [id |-> id, title |-> title, content |-> content,
     tags |-> TagsStored(tags), filename |-> DefaultFilename(id)]

\* the absent Note (a call that returned no note)
NoNote ==
    [id |-> 0, title |-> <<>>, content |-> <<>>,
     tags |-> NoTags, filename |-> DefaultFilename(0)]

\* Note.to_dict: the metadata record of the index, content excluded,
\* tags None written as []
ToDict(note) ==
    [id |-> note.id, title |-> note.title,
     tags |-> IF note.tags.kind = "none" THEN <<>> ELSE note.tags.val,
     filename |-> note.filename]

\* Note.from_dict accepts (data, content): the constructor revalidates
FromDictValid(data, content) ==
    NoteValid(data.title, content, TagList(data.tags))

\* Note.from_dict: the Note built from a metadata record and a content
FromDict(data, content) ==
    [id |-> data.id, title |-> data.title, content |-> content,
     tags |-> TagsStored(TagList(data.tags)), filename |-> data.filename]

\* ------------------------------------------------------------- state
VARIABLES
    dirs,       \* 0: no vault directory, 1: vault directory only, 2: vault and notes directories
    indexFile,  \* index.json: [exists, doc], doc the JSON document it holds
    files,      \* the notes directory: id |-> text of the file <id>.txt
    nextId,     \* ids handed out so far by generate_note_id, plus one
    last,       \* the last completed repository call: its arguments and outcome
    live,       \* titles created with success and not deleted with success since
    gone,       \* titles deleted with success and not created with success since
    pc,         \* concurrent specification: position of each process in create_note
    loc,        \* concurrent specification: locals of each process (note, index_data)
    saves,      \* concurrent specification: processes in the order of their index saves
    retired,    \* [id, title] of every entry a successful delete removed from the index
    query,      \* the last search_notes, get_all_tags_with_counts or export_notes call
    obj         \* the Note object under test: its constructor arguments and round trip

vars ==
    <<dirs, indexFile, files, nextId, last, live, gone, pc, loc, saves,
      retired, query, obj>>

Procs == 1..NumProcs
Ids == 1..MaxIds

\* ------------------------------------------------------------ input domains
TitleLower == <<"a">>
TitleUpper == <<"A">>
TitleBad == <<"a", "!">>
Titles == {TitleLower, TitleUpper, TitleBad}

ContentPlain == Rep("a", 10)
ContentCRLF == Rep("a", 4) \o <<"CR", "LF">> \o Rep("a", 5)
ContentShort == Rep("a", 9)

TagsString == TagStr(<<"x", ",", " ", "y", ",">>)
TagsList == TagList(<< <<" ", "x">>, <<"x">> >>)
TagsTooLong == TagStr(Rep("t", MaxTagLength + 1))

\* the (content, tags) arguments of create_note: three valid pairs, one
\* with an invalid content and one with an invalid tag
Bodies ==
    { [content |-> ContentPlain, tags |-> NoTags],
      [content |-> ContentPlain, tags |-> TagsString],
      [content |-> ContentCRLF, tags |-> TagsList],
      [content |-> ContentShort, tags |-> TagsList],
      [content |-> ContentPlain, tags |-> TagsTooLong] }

\* ------------------------------------------------------------ the documents
\* the document load_index returns when index.json does not exist: {}
EmptyDoc == [hasNotes |-> FALSE, notes |-> <<>>]

\* ids of the entries of a document, in the order of the JSON object
DocIds(doc) == {doc.notes[i].id : i \in 1..Len(doc.notes)}

\* ids of the entries of index.json
IndexIds == DocIds(indexFile.doc)

\* index_data["notes"][id]
Entry(doc, id) ==
    LET i == CHOOSE k \in 1..Len(doc.notes) : doc.notes[k].id = id
    IN  doc.notes[i]

\* titles of the entries of index.json
IndexTitles == {indexFile.doc.notes[i].title : i \in 1..Len(indexFile.doc.notes)}

\* ----------------------------------------------------------- vault directories
\* ensure_vault_dirs_exist: makedirs(vault_dir) then makedirs(notes_dir);
\* fail names the makedirs call that raises OSError, if any
EnsureDirs(d, fail) ==
    IF fail = "vault" THEN [dirs |-> d, err |-> TRUE]
    ELSE IF fail = "notes"
         THEN [dirs |-> IF d = 0 THEN 1 ELSE d, err |-> TRUE]
         ELSE [dirs |-> 2, err |-> FALSE]

\* ------------------------------------------------------------------ index store
\* load_index: the parsed document, {} when the file does not exist
LoadIndex(file) == IF file.exists THEN file.doc ELSE EmptyDoc

\* save_index that merges: the entries already in index.json are kept and
\* the entries of the document that the file lacks are added
SaveIndexMerge(doc) ==
    [exists |-> TRUE,
     doc |-> [hasNotes |-> TRUE,
              notes |-> indexFile.doc.notes \o
                        SelectSeq(doc.notes, LAMBDA m : m.id \notin IndexIds)]]

\* save_index: json.dump replaces the whole file by the document
SaveIndex(doc) == [exists |-> TRUE, doc |-> doc]

\* if "notes" not in index_data: index_data["notes"] = {}
WithNotes(doc) == [hasNotes |-> TRUE, notes |-> doc.notes]

\* an index keyed by title: the entry replaces every entry of the same title
AddEntryByTitle(doc, meta) ==
    [doc EXCEPT !.notes =
         Append(SelectSeq(doc.notes, LAMBDA m : m.title # meta.title), meta)]

\* index_data["notes"][note.id] = note.to_dict(): a new key is appended,
\* an existing key keeps its place
AddEntry(doc, meta) ==
    IF meta.id \in DocIds(doc)
    THEN [doc EXCEPT !.notes =
              [i \in 1..Len(doc.notes) |->
                  IF doc.notes[i].id = meta.id THEN meta ELSE doc.notes[i]]]
    ELSE [doc EXCEPT !.notes = Append(doc.notes, meta)]

\* the del applied to a copy: the document keeps the entry
RemoveEntryKeep(doc, id) == doc

\* del index_data["notes"][note_id]
RemoveEntry(doc, id) ==
    [doc EXCEPT !.notes = SelectSeq(doc.notes, LAMBDA m : m.id # id)]

\* the scan of _find_note_id_by_title with its first entry skipped
FindFromSkipFirst(doc, title, i) ==
    LET hits == {k \in (i + 1)..Len(doc.notes) : doc.notes[k].title = title}
    IN  IF hits = {} THEN 0
        ELSE doc.notes[CHOOSE k \in hits : \A j \in hits : k <= j].id

FindFrom(doc, title, i) ==
    LET hits == {k \in i..Len(doc.notes) : doc.notes[k].title = title}
    IN  IF hits = {} THEN 0
        ELSE doc.notes[CHOOSE k \in hits : \A j \in hits : k <= j].id

\* _find_note_id_by_title with the test for the "notes" key inverted
FindNoteIdByTitleInverted(doc, title) ==
    IF doc.hasNotes THEN 0 ELSE FindFrom(doc, title, 1)

\* _find_note_id_by_title: the id of the first entry whose title equals
\* title exactly, 0 (None) when there is none
FindNoteIdByTitle(doc, title) ==
    IF ~doc.hasNotes THEN 0 ELSE FindFrom(doc, title, 1)

\* ---------------------------------------------------------------- content store
\* f.write(content) on a file opened in text mode (POSIX: "\n" stays "\n")
WriteText(content) == content

RECURSIVE ReadText(_)
\* f.read() on a file opened in text mode with the default newline=None:
\* "\r\n" and "\r" are both returned as "\n"
ReadText(raw) ==
    IF raw = <<>> THEN <<>>
    ELSE IF Head(raw) = "CR"
         THEN IF Len(raw) >= 2 /\ raw[2] = "LF"
              THEN <<"LF">> \o ReadText(SubSeq(raw, 3, Len(raw)))
              ELSE <<"LF">> \o ReadText(Tail(raw))
         ELSE <<Head(raw)>> \o ReadText(Tail(raw))

\* write_note_content after its directories exist: notes/<id>.txt holds content
WriteFile(fs, id, content) ==
    [i \in DOMAIN fs \cup {id} |-> IF i = id THEN WriteText(content) ELSE fs[i]]

\* a removal that empties the notes directory
RemoveFileAll(fs, id) == <<>>

\* os.remove(note_path)
RemoveFile(fs, id) == [i \in DOMAIN fs \ {id} |-> fs[i]]

\* the index has an entry with the title and that entry's content file
\* is not in the notes directory
Dangling(title) ==
    LET id == FindNoteIdByTitle(LoadIndex(indexFile), title)
    IN  id # 0 /\ id \notin DOMAIN files

\* ------------------------------------------------------------------- faults
\* the filesystem call of create_note that raises OSError, if any
CreateFaults ==
    {"none", "mkdir_vault", "mkdir_notes", "find_read", "write", "load_read",
     "save"}
\* the filesystem call of delete_note_by_title that raises OSError, if any
DeleteFaults == {"none", "find_read", "load_read", "remove", "save"}
\* the filesystem call of get_note_by_title that raises OSError, if any
GetFaults == {"none", "find_read", "load_read", "read"}

\* the outcome of a call: the filesystem it leaves, what it raises or returns
Outcome(d, ix, fs, used, result, note) ==
    [dirs |-> d, indexFile |-> ix, files |-> fs, used |-> used,
     result |-> result, note |-> note]

\* ------------------------------------------------------------------ create
\* _create_note_internal that removes the content file again when the index
\* save fails
CreateNoteInternalRollback(note, fault) ==
    IF fault = "write"
    THEN Outcome(2, indexFile, files, TRUE, "StorageError", NoNote)
    ELSE LET fs == WriteFile(files, note.id, note.content)
             doc == AddEntry(WithNotes(LoadIndex(indexFile)), ToDict(note))
         IN  IF fault = "load_read"
             THEN Outcome(2, indexFile, fs, TRUE, "OSError", NoNote)
             ELSE IF fault = "save"
             THEN Outcome(2, indexFile, files, TRUE, "StorageError", NoNote)
             ELSE Outcome(2, SaveIndex(doc), fs, TRUE, "ok", note)

\* _create_note_internal(note): write the content, load the index, add the
\* entry, save the index; StorageError from write_note_content and
\* save_index is re-raised as StorageError, OSError passes through
CreateNoteInternal(note, fault) ==
    IF fault = "write"
    THEN Outcome(2, indexFile, files, TRUE, "StorageError", NoNote)
    ELSE LET fs == WriteFile(files, note.id, note.content)
             doc == AddEntry(WithNotes(LoadIndex(indexFile)), ToDict(note))
         IN  IF fault = "load_read"
             THEN Outcome(2, indexFile, fs, TRUE, "OSError", NoNote)
             ELSE IF fault = "save"
             THEN Outcome(2, indexFile, fs, TRUE, "StorageError", NoNote)
             ELSE Outcome(2, SaveIndex(doc), fs, TRUE, "ok", note)

\* generate_note_id that numbers the notes: one more than the index holds
GenerateNoteIdCount == Len(indexFile.doc.notes) + 1

\* generate_note_id: str(uuid.uuid4()), a value no earlier call returned
GenerateNoteId == nextId

\* create_note over a load_index that answers {} for an index file it
\* cannot parse: the call goes on as in an empty vault
CreateOutcomeLenient(title, content, tags, fault) ==
    LET e == EnsureDirs(dirs, IF fault = "mkdir_vault" THEN "vault"
                              ELSE IF fault = "mkdir_notes" THEN "notes"
                              ELSE "none")
        note == Note(GenerateNoteId, title, content, tags)
    IN  IF e.err
        THEN Outcome(e.dirs, indexFile, files, FALSE, "OSError", NoNote)
        ELSE IF fault = "find_read"
        THEN Outcome(e.dirs, indexFile, files, FALSE, "OSError", NoNote)
        ELSE IF fault = "find_json"
        THEN IF ~NoteValid(title, content, tags)
             THEN Outcome(e.dirs, indexFile, files, TRUE, "ValueError", NoNote)
             ELSE Outcome(2, SaveIndex(AddEntry(WithNotes(EmptyDoc), ToDict(note))),
                          WriteFile(files, note.id, note.content), TRUE, "ok", note)
        ELSE IF FindNoteIdByTitle(LoadIndex(indexFile), title) # 0
        THEN Outcome(e.dirs, indexFile, files, FALSE, "DuplicateTitleError", NoNote)
        ELSE IF ~NoteValid(title, content, tags)
        THEN Outcome(e.dirs, indexFile, files, TRUE, "ValueError", NoNote)
        ELSE CreateNoteInternal(note, fault)

\* create_note(title, content, tags): ensure the directories, check the
\* title for a duplicate, generate the id, construct the Note (validation),
\* then _create_note_internal; "find_json": index.json does not hold JSON,
\* load_index raises StorageError in the duplicate check
CreateOutcome(title, content, tags, fault) ==
    LET e == EnsureDirs(dirs, IF fault = "mkdir_vault" THEN "vault"
                              ELSE IF fault = "mkdir_notes" THEN "notes"
                              ELSE "none")
    IN  IF e.err
        THEN Outcome(e.dirs, indexFile, files, FALSE, "OSError", NoNote)
        ELSE IF fault = "find_read"
        THEN Outcome(e.dirs, indexFile, files, FALSE, "OSError", NoNote)
        ELSE IF fault = "find_json"
        THEN Outcome(e.dirs, indexFile, files, FALSE, "StorageError", NoNote)
        ELSE IF FindNoteIdByTitle(LoadIndex(indexFile), title) # 0
        THEN Outcome(e.dirs, indexFile, files, FALSE, "DuplicateTitleError", NoNote)
        ELSE IF ~NoteValid(title, content, tags)
        THEN Outcome(e.dirs, indexFile, files, TRUE, "ValueError", NoNote)
        ELSE CreateNoteInternal(Note(GenerateNoteId, title, content, tags), fault)

\* a fault names a call the execution reaches
CreateFaultReached(title, content, tags, fault) ==
    \/ fault \in {"none", "mkdir_vault", "mkdir_notes", "find_read"}
    \/ fault = "find_json" /\ indexFile.exists
    \/ /\ FindNoteIdByTitle(LoadIndex(indexFile), title) = 0
       /\ NoteValid(title, content, tags)

CreateNote(title, content, tags, fault) ==
    /\ CreateFaultReached(title, content, tags, fault)
    /\ \E o \in {CreateOutcome(title, content, tags, fault)} :
        /\ o.used => nextId <= MaxIds
        /\ dirs' = o.dirs
        /\ indexFile' = o.indexFile
        /\ files' = o.files
        /\ nextId' = IF o.used THEN nextId + 1 ELSE nextId
        /\ last' = [op |-> "create", title |-> title, fault |-> fault,
                    result |-> o.result, note |-> o.note, ident |-> "none",
                    missing |-> Dangling(title)]
        /\ live' = IF o.result = "ok"
                   THEN [t \in DOMAIN live \cup {title} |->
                            IF t = title THEN o.note ELSE live[t]]
                   ELSE live
        /\ gone' = IF o.result = "ok" THEN gone \ {title} ELSE gone
        /\ UNCHANGED <<pc, loc, saves, retired, query, obj>>

\* ------------------------------------------------------------------ delete
\* _delete_note_internal that treats every OSError of os.remove like a
\* missing file and goes on to delete the entry
DeleteNoteInternalIgnoreRemove(id, fault) ==
    IF fault = "load_read"
    THEN Outcome(dirs, indexFile, files, FALSE, "StorageError", NoNote)
    ELSE LET doc == LoadIndex(indexFile)
         IN  IF ~doc.hasNotes \/ id \notin DocIds(doc)
             THEN Outcome(dirs, indexFile, files, FALSE, "NoteNotFoundError", NoNote)
             ELSE LET fs == IF fault = "remove" THEN files ELSE RemoveFile(files, id)
                  IN  IF fault = "save"
                      THEN Outcome(2, indexFile, fs, FALSE, "StorageError", NoNote)
                      ELSE Outcome(2, SaveIndex(RemoveEntry(doc, id)), fs,
                                   FALSE, "ok", NoNote)

\* _delete_note_internal that raises when the content file is already gone
DeleteNoteInternalStrict(id, fault) ==
    IF fault = "load_read"
    THEN Outcome(dirs, indexFile, files, FALSE, "StorageError", NoNote)
    ELSE LET doc == LoadIndex(indexFile)
         IN  IF ~doc.hasNotes \/ id \notin DocIds(doc)
             THEN Outcome(dirs, indexFile, files, FALSE, "NoteNotFoundError", NoNote)
             ELSE IF fault = "remove" \/ id \notin DOMAIN files
             THEN Outcome(dirs, indexFile, files, FALSE, "StorageError", NoNote)
             ELSE LET fs == RemoveFile(files, id)
                  IN  IF fault = "save"
                      THEN Outcome(2, indexFile, fs, FALSE, "StorageError", NoNote)
                      ELSE Outcome(2, SaveIndex(RemoveEntry(doc, id)), fs,
                                   FALSE, "ok", NoNote)

\* _delete_note_internal(note_id): load the index, remove the content file
\* (a missing file is ignored), delete the entry, save the index
DeleteNoteInternal(id, fault) ==
    IF fault = "load_read"
    THEN Outcome(dirs, indexFile, files, FALSE, "StorageError", NoNote)
    ELSE LET doc == LoadIndex(indexFile)
         IN  IF ~doc.hasNotes \/ id \notin DocIds(doc)
             THEN Outcome(dirs, indexFile, files, FALSE, "NoteNotFoundError", NoNote)
             ELSE IF fault = "remove" /\ id \in DOMAIN files
             THEN Outcome(dirs, indexFile, files, FALSE, "StorageError", NoNote)
             ELSE LET fs == RemoveFile(files, id)
                  IN  IF fault = "save"
                      THEN Outcome(2, indexFile, fs, FALSE, "StorageError", NoNote)
                      ELSE Outcome(2, SaveIndex(RemoveEntry(doc, id)), fs,
                                   FALSE, "ok", NoNote)

\* delete_note_by_title(title): find the id, then _delete_note_internal;
\* any exception other than NoteNotFoundError is raised as StorageError
DeleteOutcome(title, fault) ==
    IF fault \in {"find_read", "find_json"}
    THEN Outcome(dirs, indexFile, files, FALSE, "StorageError", NoNote)
    ELSE LET id == FindNoteIdByTitle(LoadIndex(indexFile), title)
         IN  IF id = 0
             THEN Outcome(dirs, indexFile, files, FALSE, "NoteNotFoundError", NoNote)
             ELSE DeleteNoteInternal(id, fault)

DeleteFaultReached(title, fault) ==
    \/ fault \in {"none", "find_read"}
    \/ fault = "find_json" /\ indexFile.exists
    \/ LET id == FindNoteIdByTitle(LoadIndex(indexFile), title)
       IN  /\ id # 0
           /\ fault = "remove" => id \in DOMAIN files

DeleteNoteByTitle(title, fault) ==
    /\ DeleteFaultReached(title, fault)
    /\ \E o \in {DeleteOutcome(title, fault)} :
        /\ dirs' = o.dirs
        /\ indexFile' = o.indexFile
        /\ files' = o.files
        /\ last' = [op |-> "delete", title |-> title, fault |-> fault,
                    result |-> o.result, note |-> NoNote, ident |-> "none",
                    missing |-> Dangling(title)]
        /\ live' = IF o.result = "ok"
                   THEN [t \in DOMAIN live \ {title} |-> live[t]]
                   ELSE live
        /\ gone' = IF o.result = "ok" THEN gone \cup {title} ELSE gone
        /\ retired' = IF o.result = "ok"
                      THEN retired \cup
                           {[id |-> FindNoteIdByTitle(LoadIndex(indexFile), title),
                             title |-> title]}
                      ELSE retired
        /\ UNCHANGED <<nextId, pc, loc, saves, query, obj>>

\* --------------------------------------------------------------------- get
\* _get_note_internal(note_id): load the index, read the content file,
\* Note.from_dict; a missing file raises NoteNotFoundError(note_id), any
\* other failure (the ValueError of from_dict included) StorageError
GetNoteInternal(id, fault) ==
    IF fault = "load_read"
    THEN Outcome(dirs, indexFile, files, FALSE, "StorageError", NoNote)
    ELSE LET doc == LoadIndex(indexFile)
         IN  IF ~doc.hasNotes \/ id \notin DocIds(doc)
             THEN Outcome(dirs, indexFile, files, FALSE, "NoteNotFoundError", NoNote)
             ELSE IF id \notin DOMAIN files
             THEN Outcome(dirs, indexFile, files, FALSE, "NoteNotFoundError", NoNote)
             ELSE IF fault = "read"
             THEN Outcome(dirs, indexFile, files, FALSE, "StorageError", NoNote)
             ELSE LET content == ReadText(files[id])
                  IN  IF ~FromDictValid(Entry(doc, id), content)
                      THEN Outcome(dirs, indexFile, files, FALSE,
                                   "StorageError", NoNote)
                      ELSE Outcome(dirs, indexFile, files, FALSE, "ok",
                                   FromDict(Entry(doc, id), content))

\* what the NoteNotFoundError of get_note_by_title carries: the title when
\* raised by get_note_by_title itself (no id found), the note id when raised
\* by _get_note_internal or read_note_content
GetErrorIdent(title, fault) ==
    IF fault = "find_read" THEN "none"
    ELSE LET id == FindNoteIdByTitle(LoadIndex(indexFile), title)
         IN  IF id = 0 THEN "title"
             ELSE IF fault = "load_read" THEN "none"
             ELSE IF ~LoadIndex(indexFile).hasNotes
                     \/ id \notin DocIds(LoadIndex(indexFile))
                     \/ id \notin DOMAIN files
                  THEN "id"
                  ELSE "none"

\* get_note_by_title(title): find the id, then _get_note_internal
GetOutcome(title, fault) ==
    IF fault = "find_read"
    THEN Outcome(dirs, indexFile, files, FALSE, "StorageError", NoNote)
    ELSE LET id == FindNoteIdByTitle(LoadIndex(indexFile), title)
         IN  IF id = 0
             THEN Outcome(dirs, indexFile, files, FALSE, "NoteNotFoundError", NoNote)
             ELSE GetNoteInternal(id, fault)

GetFaultReached(title, fault) ==
    \/ fault \in {"none", "find_read"}
    \/ LET id == FindNoteIdByTitle(LoadIndex(indexFile), title)
       IN  /\ id # 0
           /\ fault = "read" => id \in DOMAIN files

\* a get_note_by_title that begins, as create_note does, by creating the
\* vault directories
GetNoteByTitleEnsureDirs(title, fault) ==
    /\ GetFaultReached(title, fault)
    /\ \E o \in {GetOutcome(title, fault)} :
        /\ dirs' = EnsureDirs(dirs, "none").dirs
        /\ last' = [op |-> "get", title |-> title, fault |-> fault,
                    result |-> o.result, note |-> o.note,
                    ident |-> GetErrorIdent(title, fault),
                    missing |-> Dangling(title)]
        /\ UNCHANGED <<indexFile, files, nextId, live, gone, pc, loc, saves,
                       retired, query, obj>>

GetNoteByTitle(title, fault) ==
    /\ GetFaultReached(title, fault)
    /\ \E o \in {GetOutcome(title, fault)} :
        /\ last' = [op |-> "get", title |-> title, fault |-> fault,
                    result |-> o.result, note |-> o.note,
                    ident |-> GetErrorIdent(title, fault),
                    missing |-> Dangling(title)]
        /\ UNCHANGED <<dirs, indexFile, files, nextId, live, gone, pc, loc, saves,
                       retired, query, obj>>

\* ------------------------------------------------------------ specification
NoCall ==
    [op |-> "none", title |-> <<>>, fault |-> "none", result |-> "none",
     note |-> NoNote, ident |-> "none", missing |-> FALSE]

\* no query call yet
NoQuery ==
    [op |-> "none", term |-> <<>>, unread |-> {}, unwritable |-> {},
     fault |-> "none", result |-> "none", cause |-> "none",
     doc |-> EmptyDoc, notes |-> <<>>, titles |-> <<>>,
     counts |-> <<>>, outDir |-> FALSE, out |-> <<>>]


\* no Note object under test
NoObject == [op |-> "none"]

\* the locals of a process that is not inside a call
NoLocals ==
    [title |-> <<>>, body |-> [content |-> <<>>, tags |-> NoTags],
     note |-> NoNote, doc |-> EmptyDoc, seen |-> 0, result |-> "none",
     id |-> 0]

\* a fresh vault: no directory, no index file, no content file
Init ==
    /\ dirs = 0
    /\ indexFile = [exists |-> FALSE, doc |-> EmptyDoc]
    /\ files = <<>>
    /\ nextId = 1
    /\ last = NoCall
    /\ live = <<>>
    /\ gone = {}
    /\ pc = [p \in Procs |-> "idle"]
    /\ loc = [p \in Procs |-> NoLocals]
    /\ saves = <<>>
    /\ retired = {}
    /\ query = NoQuery
    /\ obj = NoObject

Create ==
    \E title \in Titles, body \in Bodies, fault \in CreateFaults :
        CreateNote(title, body.content, body.tags, fault)

Delete ==
    \E title \in Titles, fault \in DeleteFaults : DeleteNoteByTitle(title, fault)

Get ==
    \E title \in Titles, fault \in GetFaults : GetNoteByTitle(title, fault)

Next == Create \/ Delete \/ Get

\* one process calling the repository, one call after the other
Spec == Init /\ [][Next]_vars

\* ------------------------------------------------- concurrent create_note
\* Two processes run create_note on the same vault; a step of a process is
\* one file operation of the call (no lock is taken anywhere in core.py).

\* the (content, tags) arguments the concurrent callers use
ConcBodies ==
    { [content |-> ContentPlain, tags |-> NoTags],
      [content |-> ContentPlain, tags |-> TagsString] }

\* create_note entered: ensure_vault_dirs_exist
ConcBegin(p, title, body) ==
    /\ pc[p] = "idle"
    /\ dirs' = EnsureDirs(dirs, "none").dirs
    /\ loc' = [loc EXCEPT ![p] = [NoLocals EXCEPT !.title = title, !.body = body]]
    /\ pc' = [pc EXCEPT ![p] = "find"]
    /\ UNCHANGED <<retired, query, obj, indexFile, files, nextId, last, live, gone, saves>>

\* the duplicate check reads the index; then the id is generated and the
\* Note constructed
ConcFind(p) ==
    /\ pc[p] = "find"
    /\ IF FindNoteIdByTitle(LoadIndex(indexFile), loc[p].title) # 0
       THEN /\ loc' = [loc EXCEPT ![p].result = "DuplicateTitleError"]
            /\ pc' = [pc EXCEPT ![p] = "done"]
            /\ UNCHANGED nextId
       ELSE /\ nextId <= MaxIds
            /\ loc' = [loc EXCEPT ![p].note =
                          Note(nextId, loc[p].title, loc[p].body.content,
                               loc[p].body.tags)]
            /\ nextId' = nextId + 1
            /\ pc' = [pc EXCEPT ![p] = "write"]
    /\ UNCHANGED <<retired, query, obj, dirs, indexFile, files, last, live, gone, saves>>

\* _create_note_internal: write_note_content
ConcWrite(p) ==
    /\ pc[p] = "write"
    /\ files' = WriteFile(files, loc[p].note.id, loc[p].note.content)
    /\ pc' = [pc EXCEPT ![p] = "load"]
    /\ UNCHANGED <<retired, query, obj, dirs, indexFile, nextId, last, live, gone, loc, saves>>

\* _create_note_internal: load_index, then the entry is added to the
\* process's own copy of the document
ConcLoad(p) ==
    /\ pc[p] = "load"
    /\ loc' = [loc EXCEPT
                  ![p].doc = AddEntry(WithNotes(LoadIndex(indexFile)),
                                      ToDict(loc[p].note)),
                  ![p].seen = Len(saves)]
    /\ pc' = [pc EXCEPT ![p] = "save"]
    /\ UNCHANGED <<retired, query, obj, dirs, indexFile, files, nextId, last, live, gone, saves>>

\* a save that reads index.json again and adds the entry to what it holds now
ConcSaveReload(p) ==
    /\ pc[p] = "save"
    /\ indexFile' = SaveIndex(AddEntry(WithNotes(LoadIndex(indexFile)),
                                       ToDict(loc[p].note)))
    /\ saves' = Append(saves, p)
    /\ loc' = [loc EXCEPT ![p].result = "ok"]
    /\ pc' = [pc EXCEPT ![p] = "done"]
    /\ UNCHANGED <<retired, query, obj, dirs, files, nextId, last, live, gone>>

\* _create_note_internal: save_index writes the process's copy; create_note
\* returns the note
ConcSave(p) ==
    /\ pc[p] = "save"
    /\ indexFile' = SaveIndex(loc[p].doc)
    /\ saves' = Append(saves, p)
    /\ loc' = [loc EXCEPT ![p].result = "ok"]
    /\ pc' = [pc EXCEPT ![p] = "done"]
    /\ UNCHANGED <<retired, query, obj, dirs, files, nextId, last, live, gone>>

ConcEnter ==
    \E p \in Procs, title \in {TitleLower, TitleUpper}, body \in ConcBodies :
        ConcBegin(p, title, body)

ConcStepFind == \E p \in Procs : ConcFind(p)

ConcStepWrite == \E p \in Procs : ConcWrite(p)

ConcStepLoad == \E p \in Procs : ConcLoad(p)

ConcStepSave == \E p \in Procs : ConcSave(p)

NextConc ==
    ConcEnter \/ ConcStepFind \/ ConcStepWrite \/ ConcStepLoad \/ ConcStepSave

\* processes calling create_note once each, interleaved at file operations
SpecConc == Init /\ [][NextConc]_vars

\* ------------------------------------------- create_note step by step
\* One caller, the first process: create_note runs one file operation per
\* step, a call that has ended hands control back, and delete_note_by_title
\* runs between two calls.

\* _create_note_internal: write_note_content raises StorageError; the
\* exception leaves the try block, so load_index and save_index are not
\* reached, and create_note re-raises it
ConcWriteFail(p) ==
    /\ pc[p] = "write"
    /\ loc' = [loc EXCEPT ![p].result = "StorageError"]
    /\ pc' = [pc EXCEPT ![p] = "done"]
    /\ UNCHANGED <<retired, query, obj, dirs, indexFile, files, nextId, last, live,
                   gone, saves>>

\* the call of a process has returned or raised: the process may call again
ConcReturn(p) ==
    /\ pc[p] = "done"
    /\ loc' = [loc EXCEPT ![p] = NoLocals]
    /\ pc' = [pc EXCEPT ![p] = "idle"]
    /\ UNCHANGED <<retired, query, obj, dirs, indexFile, files, nextId, last, live,
                   gone, saves>>

\* no call is under way
AllIdle == \A p \in Procs : pc[p] = "idle"

\* positions of create_note between its first and its last file operation
CreateSteps == {"find", "write", "load", "save"}

\* the single caller of the step-by-step specification
Caller == CHOOSE p \in Procs : \A q \in Procs : p <= q

SeqEnter ==
    /\ AllIdle
    /\ \E title \in {TitleLower, TitleUpper}, body \in ConcBodies :
           ConcBegin(Caller, title, body)

SeqStepWriteFail == \E p \in Procs : ConcWriteFail(p)

SeqReturn == \E p \in Procs : ConcReturn(p)

SeqDelete ==
    /\ AllIdle
    /\ \E title \in {TitleLower, TitleUpper}, fault \in {"none", "save"} :
           DeleteNoteByTitle(title, fault)

NextSeq ==
    \/ SeqEnter
    \/ ConcStepFind
    \/ ConcStepWrite
    \/ SeqStepWriteFail
    \/ ConcStepLoad
    \/ ConcStepSave
    \/ SeqReturn
    \/ SeqDelete

\* calls one after the other, create_note observed at each file operation
SpecSeq == Init /\ [][NextSeq]_vars

\* ------------------------------- delete_note_by_title against create_note
\* Processes run create_note and delete_note_by_title on the same vault, a
\* step of a process being one file operation of its call.

\* delete_note_by_title entered
DelBegin(p, title) ==
    /\ pc[p] = "idle"
    /\ loc' = [loc EXCEPT ![p] = [NoLocals EXCEPT !.title = title]]
    /\ pc' = [pc EXCEPT ![p] = "dfind"]
    /\ UNCHANGED <<retired, query, obj, dirs, indexFile, files, nextId, last, live,
                   gone, saves>>

\* _find_note_id_by_title reads the index; NoteNotFoundError(title) when no
\* entry has the title
DelFind(p) ==
    /\ pc[p] = "dfind"
    /\ \E id \in {FindNoteIdByTitle(LoadIndex(indexFile), loc[p].title)} :
        IF id = 0
        THEN /\ loc' = [loc EXCEPT ![p].result = "NoteNotFoundError"]
             /\ pc' = [pc EXCEPT ![p] = "done"]
        ELSE /\ loc' = [loc EXCEPT ![p].id = id]
             /\ pc' = [pc EXCEPT ![p] = "dload"]
    /\ UNCHANGED <<retired, query, obj, dirs, indexFile, files, nextId, last, live,
                   gone, saves>>

\* _delete_note_internal: load_index into the process's own copy;
\* NoteNotFoundError(note_id) when the id is not in it
DelLoad(p) ==
    /\ pc[p] = "dload"
    /\ \E doc \in {LoadIndex(indexFile)} :
        IF ~doc.hasNotes \/ loc[p].id \notin DocIds(doc)
        THEN /\ loc' = [loc EXCEPT ![p].result = "NoteNotFoundError"]
             /\ pc' = [pc EXCEPT ![p] = "done"]
        ELSE /\ loc' = [loc EXCEPT ![p].doc = doc]
             /\ pc' = [pc EXCEPT ![p] = "dremove"]
    /\ UNCHANGED <<retired, query, obj, dirs, indexFile, files, nextId, last, live,
                   gone, saves>>

\* _delete_note_internal: os.remove of the content file, a missing file
\* being ignored
DelRemove(p) ==
    /\ pc[p] = "dremove"
    /\ files' = RemoveFile(files, loc[p].id)
    /\ pc' = [pc EXCEPT ![p] = "dsave"]
    /\ UNCHANGED <<retired, query, obj, dirs, indexFile, nextId, last, live, gone,
                   loc, saves>>

\* _delete_note_internal: the entry is deleted from the process's copy and
\* save_index writes the copy; delete_note_by_title returns
DelSave(p) ==
    /\ pc[p] = "dsave"
    /\ dirs' = EnsureDirs(dirs, "none").dirs
    /\ indexFile' = SaveIndex(RemoveEntry(loc[p].doc, loc[p].id))
    /\ retired' = retired \cup {[id |-> loc[p].id, title |-> loc[p].title]}
    /\ loc' = [loc EXCEPT ![p].result = "ok"]
    /\ pc' = [pc EXCEPT ![p] = "done"]
    /\ UNCHANGED <<query, obj, files, nextId, last, live, gone, saves>>

\* the race is between two processes, one call of each under way at a time
RaceProcs == {p \in Procs : p <= 2}

RaceCreate ==
    \E p \in RaceProcs, title \in {TitleLower, TitleUpper} :
        ConcBegin(p, title, [content |-> ContentPlain, tags |-> NoTags])

RaceDelete ==
    \E p \in RaceProcs, title \in {TitleLower, TitleUpper} : DelBegin(p, title)

RaceStepFind == \E p \in Procs : DelFind(p)

RaceStepLoad == \E p \in Procs : DelLoad(p)

RaceStepRemove == \E p \in Procs : DelRemove(p)

RaceStepSave == \E p \in Procs : DelSave(p)

NextRace ==
    \/ RaceCreate
    \/ ConcStepFind
    \/ ConcStepWrite
    \/ ConcStepLoad
    \/ ConcStepSave
    \/ RaceDelete
    \/ RaceStepFind
    \/ RaceStepLoad
    \/ RaceStepRemove
    \/ RaceStepSave
    \/ SeqReturn

\* processes calling create_note and delete_note_by_title, interleaved at
\* file operations
SpecRace == Init /\ [][NextRace]_vars

\* ------------------------------------------------------------------ queries
\* str.lower() on one character
LowerChar(c) ==
    CASE c = "A" -> "a"
      [] c = "B" -> "b"
      [] c = "X" -> "x"
      [] c = "Y" -> "y"
      [] OTHER -> c

\* str.lower()
Lower(s) == [i \in 1..Len(s) |-> LowerChar(s[i])]

\* t in s, for strings
IsSubstr(t, s) ==
    \E i \in 0..(Len(s) - Len(t)) : SubSeq(s, i + 1, i + Len(t)) = t

\* the filesystem call of search_notes and get_all_tags_with_counts that
\* raises OSError, if any (the per-note reads are given by the set unread)
QueryFaults == {"none", "load_read"}

\* the failure of a load_index call, if any: "load_read", open or read raises
\* an OSError other than FileNotFoundError; "load_json", the text of the file
\* is not valid JSON and json.load raises JSONDecodeError
ListFaults == {"none", "load_read", "load_json"}

\* load_index that lets the JSONDecodeError through
LoadIndexResultRaw(fault) ==
    IF fault = "load_read"
    THEN [result |-> "OSError", cause |-> "none", doc |-> EmptyDoc]
    ELSE IF fault = "load_json"
    THEN [result |-> "JSONDecodeError", cause |-> "none", doc |-> EmptyDoc]
    ELSE [result |-> "ok", cause |-> "none", doc |-> LoadIndex(indexFile)]

\* load_index as a call: the document, or what it raises and the error the
\* exception wraps. FileNotFoundError gives {}, JSONDecodeError is wrapped in
\* StorageError, any other OSError is not caught.
LoadIndexResult(fault) ==
    IF fault = "load_read"
    THEN [result |-> "OSError", cause |-> "none", doc |-> EmptyDoc]
    ELSE IF fault = "load_json"
    THEN [result |-> "StorageError", cause |-> "JSONDecodeError", doc |-> EmptyDoc]
    ELSE [result |-> "ok", cause |-> "none", doc |-> LoadIndex(indexFile)]

\* the handler of the query functions: except StorageError wraps the
\* StorageError of load_index in a new StorageError; nothing else is caught
QueryError(l) ==
    IF l.result = "StorageError"
    THEN [result |-> "StorageError", cause |-> "StorageError"]
    ELSE [result |-> l.result, cause |-> l.cause]

\* _get_note_internal as search_notes calls it; the content files of the
\* ids in unread raise OSError on open
SearchGet(id, unread) ==
    GetNoteInternal(id, IF id \in unread THEN "read" ELSE "none")

\* the loop body of search_notes with the term compared as given
SearchEntryCaseSensitive(e, term, unread) ==
    LET got == SearchGet(e.id, unread)
        hit == IF got.result = "ok" THEN <<got.note>> ELSE <<>>
    IN  IF IsSubstr(term, Lower(e.title))
           \/ \E i \in 1..Len(e.tags) : IsSubstr(term, Lower(e.tags[i]))
        THEN hit
        ELSE IF e.id \notin DOMAIN files \/ e.id \in unread THEN <<>>
        ELSE IF IsSubstr(term, Lower(ReadText(files[e.id]))) THEN hit
        ELSE <<>>

\* the loop body of search_notes for one index entry: the notes it appends.
\* A hit in the title or in a tag loads the note; otherwise the content is
\* read and searched; NoteNotFoundError and StorageError skip the entry.
SearchEntry(e, term, unread) ==
    LET term_lower == Lower(term)
        got == SearchGet(e.id, unread)
        hit == IF got.result = "ok" THEN <<got.note>> ELSE <<>>
    IN  IF IsSubstr(term_lower, Lower(e.title))
           \/ \E i \in 1..Len(e.tags) : IsSubstr(term_lower, Lower(e.tags[i]))
        THEN hit
        ELSE IF e.id \notin DOMAIN files \/ e.id \in unread THEN <<>>
        ELSE IF IsSubstr(term_lower, Lower(ReadText(files[e.id]))) THEN hit
        ELSE <<>>

RECURSIVE SearchFrom(_, _, _, _)
\* for note_id, note_data in index_data["notes"].items(), from entry i on
SearchFrom(doc, term, unread, i) ==
    IF i > Len(doc.notes) THEN <<>>
    ELSE SearchEntry(doc.notes[i], term, unread)
         \o SearchFrom(doc, term, unread, i + 1)

\* search_notes in which a content file that cannot be read ends the call
SearchNotesStrict(term, unread, fault) ==
    LET l == LoadIndexResult(fault)
    IN  IF l.result # "ok" THEN QueryError(l) @@ [notes |-> <<>>]
        ELSE IF ~l.doc.hasNotes
        THEN [result |-> "ok", cause |-> "none", notes |-> <<>>]
        ELSE IF \E id \in DocIds(l.doc) : id \notin DOMAIN files \/ id \in unread
        THEN [result |-> "StorageError", cause |-> "StorageError", notes |-> <<>>]
        ELSE [result |-> "ok", cause |-> "none",
              notes |-> SearchFrom(l.doc, term, unread, 1)]

\* search_notes that walks the notes directory as well: a content file of
\* no index entry that holds the term is returned too
SearchNotesAllFiles(term, unread, fault) ==
    LET l == LoadIndexResult(fault)
    IN  IF l.result # "ok" THEN QueryError(l) @@ [notes |-> <<>>]
        ELSE IF ~l.doc.hasNotes
        THEN [result |-> "ok", cause |-> "none", notes |-> <<>>]
        ELSE LET more == {id \in DOMAIN files \ DocIds(l.doc) :
                             IsSubstr(Lower(term), Lower(ReadText(files[id])))}
             IN  [result |-> "ok", cause |-> "none",
                  notes |-> SearchFrom(l.doc, term, unread, 1) \o
                            IF more = {} THEN <<>>
                            ELSE LET id == CHOOSE i \in more : \A j \in more : i <= j
                                 IN  <<Note(id, <<>>, ReadText(files[id]), NoTags)>>]

\* search_notes(term): the list of matching notes in index order; an
\* OSError of the index read passes through (load_index and search_notes
\* catch other exception types only)
SearchNotes(term, unread, fault) ==
    LET l == LoadIndexResult(fault)
    IN  IF l.result # "ok" THEN QueryError(l) @@ [notes |-> <<>>]
        ELSE IF ~l.doc.hasNotes
        THEN [result |-> "ok", cause |-> "none", notes |-> <<>>]
        ELSE [result |-> "ok", cause |-> "none",
              notes |-> SearchFrom(l.doc, term, unread, 1)]

\* the call search_notes(term), the content files of unread unreadable
Search(term, unread, fault) ==
    /\ unread \subseteq (IndexIds \cap DOMAIN files)
    /\ fault # "none" => indexFile.exists /\ unread = {}
    /\ \E o \in {SearchNotes(term, unread, fault)} :
        query' = [NoQuery EXCEPT !.op = "search", !.term = term,
                                 !.unread = unread, !.fault = fault,
                                 !.result = o.result, !.cause = o.cause,
                                 !.notes = o.notes]
    /\ UNCHANGED <<dirs, indexFile, files, nextId, last, live, gone, pc, loc,
                   saves, retired, obj>>

\* the tags of every entry of a document
DocTags(doc) ==
    {doc.notes[i].tags[j] : <<i, j>> \in
        {<<i, j>> \in (1..Len(doc.notes)) \X (1..MaxTags) :
            j <= Len(doc.notes[i].tags)}}

RECURSIVE TagCountFrom(_, _, _)
\* tag_counts[tag] after the loops over entries i.. : one is added for
\* every element of an entry's tags list that equals tag
TagCountFrom(doc, tag, i) ==
    IF i > Len(doc.notes) THEN 0
    ELSE Cardinality({j \in 1..Len(doc.notes[i].tags) : doc.notes[i].tags[j] = tag})
         + TagCountFrom(doc, tag, i + 1)

\* get_all_tags_with_counts(): the mapping tag -> count
GetAllTagsWithCounts(fault) ==
    LET l == LoadIndexResult(fault)
    IN  IF l.result # "ok" THEN QueryError(l) @@ [counts |-> <<>>]
        ELSE IF ~l.doc.hasNotes
        THEN [result |-> "ok", cause |-> "none", counts |-> <<>>]
        ELSE [result |-> "ok", cause |-> "none",
              counts |-> [t \in DocTags(l.doc) |-> TagCountFrom(l.doc, t, 1)]]

\* the call get_all_tags_with_counts()
TagCounts(fault) ==
    /\ fault # "none" => indexFile.exists
    /\ \E o \in {GetAllTagsWithCounts(fault)} :
        query' = [NoQuery EXCEPT !.op = "tags", !.fault = fault,
                                 !.result = o.result, !.cause = o.cause,
                                 !.counts = o.counts]
    /\ UNCHANGED <<dirs, indexFile, files, nextId, last, live, gone, pc, loc,
                   saves, retired, obj>>

\* titles, contents, tags and terms of the query specification
QTitles == {<<"A">>, <<"b">>}
ContentUpperEnd == Rep("b", 9) \o <<"A">>
ContentCRLFMin == Rep("a", 4) \o <<"CR", "LF">> \o Rep("a", 4)
TagsRepeated == TagList(<< <<" ", "x">>, <<"x">>, <<"A">> >>)
QBodies ==
    { [content |-> ContentUpperEnd, tags |-> NoTags],
      [content |-> Rep("y", 10), tags |-> TagsRepeated],
      [content |-> ContentCRLFMin, tags |-> NoTags] }
QTerms == {<<"a">>, <<"A">>, <<"x">>, <<"b", "A">>}

QCreate ==
    \E title \in QTitles, body \in QBodies :
        CreateNote(title, body.content, body.tags, "none")

QDelete ==
    \E title \in QTitles, fault \in {"none", "save"} :
        DeleteNoteByTitle(title, fault)

QSearch ==
    \E term \in QTerms, unread \in SUBSET Ids, fault \in QueryFaults :
        Search(term, unread, fault)

QTags == \E fault \in QueryFaults : TagCounts(fault)

NextQ == QCreate \/ QDelete \/ QSearch \/ QTags

\* one process creating, deleting and querying, one call after the other
SpecQ == Init /\ [][NextQ]_vars

\* ------------------------------------------------------------------ listing
\* the call load_index()
LoadIndexCall(fault) ==
    /\ fault # "none" => indexFile.exists
    /\ \E l \in {LoadIndexResult(fault)} :
        query' = [NoQuery EXCEPT !.op = "load", !.fault = fault,
                                 !.result = l.result, !.cause = l.cause,
                                 !.doc = l.doc]
    /\ UNCHANGED <<dirs, indexFile, files, nextId, last, live, gone, pc, loc,
                   saves, retired, obj>>

\* get_all_titles() with the titles lower-cased
GetAllTitlesLower(fault) ==
    LET l == LoadIndexResult(fault)
    IN  IF l.result # "ok" THEN QueryError(l) @@ [titles |-> <<>>]
        ELSE [result |-> "ok", cause |-> "none",
              titles |-> [i \in 1..Len(l.doc.notes) |-> Lower(l.doc.notes[i].title)]]

\* get_all_titles(): the title of every index entry, in index order
GetAllTitles(fault) ==
    LET l == LoadIndexResult(fault)
    IN  IF l.result # "ok" THEN QueryError(l) @@ [titles |-> <<>>]
        ELSE IF ~l.doc.hasNotes
        THEN [result |-> "ok", cause |-> "none", titles |-> <<>>]
        ELSE [result |-> "ok", cause |-> "none",
              titles |-> [i \in 1..Len(l.doc.notes) |-> l.doc.notes[i].title]]

\* the call get_all_titles()
AllTitles(fault) ==
    /\ fault # "none" => indexFile.exists
    /\ \E o \in {GetAllTitles(fault)} :
        query' = [NoQuery EXCEPT !.op = "titles", !.fault = fault,
                                 !.result = o.result, !.cause = o.cause,
                                 !.titles = o.titles]
    /\ UNCHANGED <<dirs, indexFile, files, nextId, last, live, gone, pc, loc,
                   saves, retired, obj>>

\* titles and bodies of the listing specification
LTitles == {TitleLower, TitleUpper}

LCreate ==
    \E title \in LTitles, body \in ConcBodies, fault \in {"none", "save"} :
        CreateNote(title, body.content, body.tags, fault)

LDelete ==
    \E title \in LTitles, fault \in {"none", "save"} :
        DeleteNoteByTitle(title, fault)

LLoad == \E fault \in ListFaults : LoadIndexCall(fault)

LTitlesCall == \E fault \in ListFaults : AllTitles(fault)

LTags == \E fault \in ListFaults : TagCounts(fault)

LSearch == \E fault \in ListFaults : Search(TitleLower, {}, fault)

NextL == LCreate \/ LDelete \/ LLoad \/ LTitlesCall \/ LTags \/ LSearch

\* one process creating, deleting and listing, one call after the other
SpecL == Init /\ [][NextL]_vars

\* ------------------------------------------------------------------- export
\* c if c.isalnum() or c in " -_" else "_", then " " replaced by "_"
SafeChar(c) ==
    IF c \in AlnumChars \cup {" ", "-", "_"}
    THEN (IF c = " " THEN "_" ELSE c)
    ELSE "_"

\* the sanitized title, "untitled" when it is empty
SafeTitle(title) ==
    IF title = <<>> THEN <<"u", "n", "t", "i", "t", "l", "e", "d">>
    ELSE [i \in 1..Len(title) |-> SafeChar(title[i])]

\* f"Title: {title}\n\n" followed by the content
ExportText(title, content) ==
    <<"T", "i", "t", "l", "e", ":", " ">> \o title \o <<"LF", "LF">> \o content

\* open(output_path, "w") and the two writes: the file of that name is
\* created or replaced
ExportWrite(out, name, text) ==
    [n \in DOMAIN out \cup {name} |-> IF n = name THEN WriteText(text) ELSE out[n]]

RECURSIVE ExportFromAbort(_, _, _, _)
\* the export loop with break in place of continue: the first note that
\* cannot be read ends the loop
ExportFromAbort(doc, unread, i, out) ==
    IF i > Len(doc.notes) THEN out
    ELSE LET e == doc.notes[i]
         IN  IF e.id \notin DOMAIN files \/ e.id \in unread
             THEN out
             ELSE ExportFromAbort(doc, unread, i + 1,
                      ExportWrite(out, SafeTitle(e.title),
                                  ExportText(e.title, ReadText(files[e.id]))))

RECURSIVE ExportFrom(_, _, _, _)
\* for note_id, note_data in index_data["notes"].items(), from entry i on:
\* read the content, write the file; NoteNotFoundError and StorageError of
\* the read skip the note
ExportFrom(doc, unread, i, out) ==
    IF i > Len(doc.notes) THEN out
    ELSE LET e == doc.notes[i]
         IN  IF e.id \notin DOMAIN files \/ e.id \in unread
             THEN ExportFrom(doc, unread, i + 1, out)
             ELSE ExportFrom(doc, unread, i + 1,
                      ExportWrite(out, SafeTitle(e.title),
                                  ExportText(e.title, ReadText(files[e.id]))))

\* the filesystem call of export_notes that raises OSError, if any (the
\* per-note reads and writes are given by the sets unread and unwritable)
ExportFaults == {"none", "load_read", "mkdir"}

\* the position of the first index entry whose content is read and whose
\* open(output_path, "w") raises OSError, 0 when there is none
ExportStop(doc, unread, unwritable) ==
    LET stops == {i \in 1..Len(doc.notes) :
                     /\ doc.notes[i].id \in DOMAIN files
                     /\ doc.notes[i].id \notin unread
                     /\ doc.notes[i].id \in unwritable}
    IN  IF stops = {} THEN 0 ELSE CHOOSE i \in stops : \A k \in stops : i <= k

\* export_notes(output_dir) into a directory that does not exist yet:
\* whether the directory exists afterwards, and the files in it. An OSError
\* of the index read, of makedirs or of the open of an output file leaves
\* the loop (the inner except names NoteNotFoundError and StorageError
\* only) and is re-raised as OSError by the outer handler.
ExportNotes(unread, unwritable, fault) ==
    IF fault = "load_read"
    THEN [result |-> "OSError", outDir |-> FALSE, out |-> <<>>]
    ELSE LET doc == LoadIndex(indexFile)
             stop == ExportStop(doc, unread, unwritable)
         IN  IF ~doc.hasNotes
             THEN [result |-> "ok", outDir |-> FALSE, out |-> <<>>]
             ELSE IF fault = "mkdir"
             THEN [result |-> "OSError", outDir |-> FALSE, out |-> <<>>]
             ELSE IF stop # 0
             THEN [result |-> "OSError", outDir |-> TRUE,
                   out |-> ExportFrom([doc EXCEPT !.notes = SubSeq(@, 1, stop - 1)],
                                      unread, 1, <<>>)]
             ELSE [result |-> "ok", outDir |-> TRUE,
                   out |-> ExportFrom(doc, unread, 1, <<>>)]

\* the call export_notes(output_dir), the content files of unread unreadable
\* and the output files of the notes in unwritable not writable
Export(unread, unwritable, fault) ==
    /\ unread \subseteq (IndexIds \cap DOMAIN files)
    /\ unwritable \subseteq (IndexIds \cap DOMAIN files)
    /\ Cardinality(unwritable) <= 1
    /\ unwritable # {} => unread = {}
    /\ fault # "none" => indexFile.exists /\ unread = {} /\ unwritable = {}
    /\ \E o \in {ExportNotes(unread, unwritable, fault)} :
        query' = [NoQuery EXCEPT !.op = "export", !.unread = unread,
                                 !.unwritable = unwritable,
                                 !.fault = fault, !.result = o.result,
                                 !.outDir = o.outDir, !.out = o.out]
    /\ UNCHANGED <<dirs, indexFile, files, nextId, last, live, gone, pc, loc,
                   saves, retired, obj>>

\* titles and bodies of the export specification: two titles with the same
\* sanitized form, and the empty title
XTitles == {<<"a", " ">>, <<"a", "LF">>, <<>>}
XBodies ==
    { [content |-> ContentPlain, tags |-> NoTags],
      [content |-> ContentCRLF, tags |-> NoTags] }

XCreate ==
    \E title \in XTitles, body \in XBodies :
        CreateNote(title, body.content, body.tags, "none")

XDelete ==
    \E title \in XTitles, fault \in {"none", "save"} :
        DeleteNoteByTitle(title, fault)

XExport ==
    \E unread \in SUBSET Ids, unwritable \in SUBSET Ids, fault \in ExportFaults :
        Export(unread, unwritable, fault)

NextX == XCreate \/ XDelete \/ XExport

\* one process creating, deleting and exporting, one call after the other
SpecX == Init /\ [][NextX]_vars

\* ------------------------------------------------------- reading the vault
\* One process creating and deleting notes and calling every function that
\* reads the vault.
RCreate ==
    \E title \in LTitles, fault \in {"none", "find_json"} :
        CreateNote(title, ContentPlain, TagsString, fault)

RDelete ==
    \E title \in LTitles, fault \in {"none", "save", "find_json"} :
        DeleteNoteByTitle(title, fault)

RGet == \E title \in LTitles, fault \in GetFaults : GetNoteByTitle(title, fault)

RExport ==
    \E unread \in SUBSET Ids, unwritable \in SUBSET Ids, fault \in ExportFaults :
        Export(unread, unwritable, fault)

NextR ==
    RCreate \/ RDelete \/ RGet \/ LTitlesCall \/ LTags \/ LSearch \/ RExport

SpecR == Init /\ [][NextR]_vars

\* ------------------------------------------------------------- Note objects
\* The Note object with its timestamps. A datetime is [sec, usec]; the
\* string datetime.isoformat() returns is [sec, frac], frac the microsecond
\* digits, which isoformat() leaves out when the microsecond is 0.

\* datetime.isoformat(timespec="seconds"): the microseconds are dropped
IsoFormatSeconds(dt) == [sec |-> dt.sec, frac |-> <<>>]

\* datetime.isoformat()
IsoFormat(dt) ==
    [sec |-> dt.sec, frac |-> IF dt.usec = 0 THEN <<>> ELSE <<dt.usec>>]

\* datetime.fromisoformat(str)
FromIsoFormat(str) ==
    [sec |-> str.sec, usec |-> IF str.frac = <<>> THEN 0 ELSE str.frac[1]]

\* an optional argument: None, or a value of the kind named
None == [kind |-> "none"]
Some(kind, val) == [kind |-> kind, val |-> val]

\* the created_at / last_modified handling of Note.__init__: None takes the
\* default, a string is parsed, a datetime is kept
Timestamp(arg, default) ==
    IF arg.kind = "none" THEN default
    ELSE IF arg.kind = "str" THEN FromIsoFormat(arg.val)
    ELSE arg.val

\* Note.__init__(title, content, tags, id, created_at, last_modified,
\* filename) with valid fields; now is the clock reading it takes and uuid
\* the value uuid4 returns when no id is given
NoteInit(title, content, tags, id, created_at, last_modified, filename, now, uuid) ==
    LET theId == IF id.kind = "none" THEN uuid ELSE id.val
        created == Timestamp(created_at, now)
    IN  [id |-> theId, title |-> title, content |-> content,
         tags |-> TagsStored(tags),
         created_at |-> created,
         last_modified |-> Timestamp(last_modified, created),
         filename |-> IF filename.kind = "none" THEN DefaultFilename(theId)
                      ELSE filename.val]

\* Note.to_dict with the timestamps
NoteToDict(note) ==
    [id |-> note.id, title |-> note.title,
     tags |-> IF note.tags.kind = "none" THEN <<>> ELSE note.tags.val,
     created_at |-> IsoFormat(note.created_at),
     last_modified |-> IsoFormat(note.last_modified),
     filename |-> note.filename]

\* Note.from_dict(data, content) for a dictionary that has every key
NoteFromDict(data, content, now, uuid) ==
    NoteInit(data.title, content, TagList(data.tags), Some("str", data.id),
             Some("str", data.created_at), Some("str", data.last_modified),
             Some("str", data.filename), now, uuid)

\* clock readings, and the arguments the Note specification passes
Times == {[sec |-> 1, usec |-> u] : u \in {0, 5}}
NoteContents == {ContentPlain, ContentCRLF, ContentShort}
NoteTags == {NoTags, TagsString, TagsList, TagsTooLong}
NoteIdArgs == {None} \cup {Some("str", i) : i \in Ids}
NoteTimeArgs ==
    {None, Some("str", IsoFormat([sec |-> 1, usec |-> 5]))}
        \cup {Some("datetime", t) : t \in Times}
CustomFilename == [stem |-> 0, ext |-> ".txt"]
NoteFilenameArgs == {None, Some("str", CustomFilename)}

\* the arguments of one Note(...) call, the clock reading and the uuid4 value
NoteArgs ==
    [title : Titles, content : NoteContents, tags : NoteTags,
     id : NoteIdArgs, created_at : NoteTimeArgs, last_modified : NoteTimeArgs,
     filename : NoteFilenameArgs, now : Times, uuid : Ids]

\* a Note is constructed, written with to_dict and rebuilt with from_dict
\* from the dictionary and its own content
NoteRoundTrip ==
    /\ obj.op = "args"
    /\ NoteValid(obj.args.title, obj.args.content, obj.args.tags)
    /\ \E later \in Times, uuid2 \in Ids :
        \E n \in {NoteInit(obj.args.title, obj.args.content, obj.args.tags,
                           obj.args.id, obj.args.created_at,
                           obj.args.last_modified, obj.args.filename,
                           obj.args.now, obj.args.uuid)} :
            obj' = [op |-> "roundtrip", args |-> obj.args, note |-> n,
                    back |-> NoteFromDict(NoteToDict(n), n.content, later, uuid2)]
    /\ UNCHANGED <<dirs, indexFile, files, nextId, last, live, gone, pc, loc,
                   saves, retired, query>>

\* Note.__init__ raises ValueError for a field that fails validation
NoteRejected ==
    /\ obj.op = "args"
    /\ ~NoteValid(obj.args.title, obj.args.content, obj.args.tags)
    /\ obj' = [op |-> "ValueError", args |-> obj.args]
    /\ UNCHANGED <<dirs, indexFile, files, nextId, last, live, gone, pc, loc,
                   saves, retired, query>>

\* no vault, and the arguments of a Note(...) call about to be made
InitNote ==
    /\ dirs = 0
    /\ indexFile = [exists |-> FALSE, doc |-> EmptyDoc]
    /\ files = <<>>
    /\ nextId = 1
    /\ last = NoCall
    /\ live = <<>>
    /\ gone = {}
    /\ pc = [p \in Procs |-> "idle"]
    /\ loc = [p \in Procs |-> NoLocals]
    /\ saves = <<>>
    /\ retired = {}
    /\ query = NoQuery
    /\ \E a \in NoteArgs : obj = [op |-> "args", args |-> a]

NextNote == NoteRoundTrip \/ NoteRejected

\* Note objects constructed and round-tripped, no vault involved
SpecNote == InitNote /\ [][NextNote]_vars

\* ------------------------------------------------------------------- fields
\* Python values handed to a field: None, an int, a str, a list or a tuple
\* (the elements of a list are values again); each type has its own field
PyNone == [type |-> "NoneType"]
PyInt(n) == [type |-> "int", int |-> n]
PyStr(s) == [type |-> "str", str |-> s]
PyList(l) == [type |-> "list", items |-> l]
PyTuple(l) == [type |-> "tuple", items |-> l]

\* [PyStr(s) for s in seq]
StrList(seq) == PyList([i \in 1..Len(seq) |-> PyStr(seq[i])])

\* the strings of a list whose elements are all str
ListVals(v) == [i \in 1..Len(v.items) |-> v.items[i].str]

\* the tags value as TagsField.validate branches on it
TagsOf(v) == IF v.type = "str" THEN TagStr(v.str) ELSE TagList(ListVals(v))

\* BaseField.__set__ for title (required): the value passes
TitleFieldAccepts(v) == v.type = "str" /\ TitleValid(v.str)

\* BaseField.__set__ for content (required): the value passes
ContentFieldAccepts(v) == v.type = "str" /\ ContentValid(v.str)

\* BaseField.__set__ for tags (not required): None passes unvalidated; a str
\* passes the checks on its pieces, a list those on its elements, which
\* must all be str; any other type is refused
TagsFieldAccepts(v) ==
    \/ v.type = "NoneType"
    \/ v.type = "str" /\ TagsValid(TagsOf(v))
    \/ /\ v.type = "list"
       /\ \A i \in 1..Len(v.items) : v.items[i].type = "str"
       /\ TagsValid(TagsOf(v))

\* BaseField.__set__: the field accepts the value
FieldAccepts(field, v) ==
    CASE field = "title" -> TitleFieldAccepts(v)
      [] field = "content" -> ContentFieldAccepts(v)
      [] field = "tags" -> TagsFieldAccepts(v)

\* instance.__dict__[name] = value: what an accepted value is stored as
FieldStored(field, v) ==
    IF field = "tags"
    THEN (IF v.type = "NoneType" THEN NoTags ELSE TagsStored(TagsOf(v)))
    ELSE v.str

\* a string of n tags "t" separated by commas, and the list of n tags
TagsCommaString(n) == [i \in 1..(2 * n - 1) |-> IF i % 2 = 1 THEN "t" ELSE ","]
TagsOfCount(n) == [i \in 1..n |-> <<"t">>]

\* the values the field specification hands to each field
TitleValues ==
    { PyNone, PyInt(5), StrList(<< <<"a">> >>),
      PyStr(<<>>), PyStr(<<"a">>), PyStr(<<" ">>), PyStr(<<"a", "LF", "b">>),
      PyStr(<<"a", "!">>), PyStr(<<"-">>),
      PyStr(Rep("a", TitleMaxLength - 1)), PyStr(Rep("a", TitleMaxLength)),
      PyStr(Rep("a", TitleMaxLength + 1)),
      PyStr(Rep("a", TitleMaxLength) \o <<"!">>) }
ContentValues ==
    { PyNone, PyInt(5), StrList(<<ContentPlain>>),
      PyStr(<<>>), PyStr(Rep("!", ContentMinLength - 1)),
      PyStr(Rep("!", ContentMinLength)), PyStr(Rep("a", ContentMinLength + 1)),
      PyStr(Rep("a", ContentMaxLength - 1)), PyStr(Rep("a", ContentMaxLength)),
      PyStr(Rep("a", ContentMaxLength + 1)) }
TagsValues ==
    { PyNone, PyInt(5), PyTuple(<<PyStr(<<"x">>)>>),
      PyStr(<<>>), PyStr(<<"x", ",", " ", "y", ",">>), PyStr(<<" ", ",", " ">>),
      PyList(<<>>), StrList(<< <<" ", "x">>, <<>>, <<"y", " ">> >>),
      PyList(<<PyStr(<<"x">>), PyInt(5)>>), PyList(<<PyStr(<<"x">>), PyNone>>),
      StrList(TagsOfCount(MaxTags)), StrList(TagsOfCount(MaxTags + 1)),
      StrList(TagsOfCount(MaxTags) \o << <<" ">> >>),
      PyStr(TagsCommaString(MaxTags)), PyStr(TagsCommaString(MaxTags + 1)),
      PyStr(TagsCommaString(MaxTags) \o <<",", " ">>),
      StrList(<<Rep("t", MaxTagLength)>>), StrList(<<Rep("t", MaxTagLength + 1)>>),
      StrList(<<<<" ">> \o Rep("t", MaxTagLength) \o <<" ">>>>),
      PyStr(Rep("t", MaxTagLength) \o <<",">> \o Rep("t", MaxTagLength + 1)) }
FieldValues(field) ==
    CASE field = "title" -> TitleValues
      [] field = "content" -> ContentValues
      [] field = "tags" -> TagsValues

\* the note whose field is updated, and the arguments next to the field
\* under test in a constructor call
FieldNote(id) == Note(id, TitleLower, ContentPlain, TagsString)

\* Note(...) with one argument under test: constructed or ValueError
FieldConstruct ==
    /\ obj.op = "args"
    /\ obj.via = "init"
    /\ obj' = [obj EXCEPT
                 !.op = "done",
                 !.result = IF FieldAccepts(obj.field, obj.value)
                            THEN "ok" ELSE "ValueError",
                 !.after = IF FieldAccepts(obj.field, obj.value)
                           THEN [FieldNote(obj.id) EXCEPT
                                    ![obj.field] = FieldStored(obj.field, obj.value)]
                           ELSE NoNote]
    /\ UNCHANGED <<dirs, indexFile, files, nextId, last, live, gone, pc, loc,
                   saves, retired, query>>

\* update_title / update_content / update_tags on an existing note: the
\* descriptor raises before anything is assigned
FieldUpdate ==
    /\ obj.op = "args"
    /\ obj.via = "update"
    /\ obj' = [obj EXCEPT
                 !.op = "done",
                 !.result = IF FieldAccepts(obj.field, obj.value)
                            THEN "ok" ELSE "ValueError",
                 !.after = IF FieldAccepts(obj.field, obj.value)
                           THEN [obj.before EXCEPT
                                    ![obj.field] = FieldStored(obj.field, obj.value)]
                           ELSE obj.before]
    /\ UNCHANGED <<dirs, indexFile, files, nextId, last, live, gone, pc, loc,
                   saves, retired, query>>

\* no vault; a field, a value for it and the way it is about to be set
InitField ==
    /\ dirs = 0
    /\ indexFile = [exists |-> FALSE, doc |-> EmptyDoc]
    /\ files = <<>>
    /\ nextId = 1
    /\ last = NoCall
    /\ live = <<>>
    /\ gone = {}
    /\ pc = [p \in Procs |-> "idle"]
    /\ loc = [p \in Procs |-> NoLocals]
    /\ saves = <<>>
    /\ retired = {}
    /\ query = NoQuery
    /\ \E field \in {"title", "content", "tags"}, via \in {"init", "update"},
          id \in Ids :
        \E value \in FieldValues(field) :
            obj = [op |-> "args", field |-> field, value |-> value, via |-> via,
                   id |-> id, before |-> FieldNote(id), result |-> "none",
                   after |-> NoNote]

NextField == FieldConstruct \/ FieldUpdate

\* one field of a Note set once, by the constructor or by an update method
SpecField == InitField /\ [][NextField]_vars

\* ------------------------------------------------------------------ updates
\* the datetime of a clock reading
Dt(s) == [sec |-> s, usec |-> 0]

\* a <= b on datetimes
TimeLE(a, b) == a.sec < b.sec \/ (a.sec = b.sec /\ a.usec <= b.usec)

\* the created_at / last_modified arguments of the update specification
UpdTimeArgs ==
    {None} \cup {Some("datetime", Dt(t)) : t \in 1..MaxClock}
           \cup {Some("str", IsoFormat(Dt(t))) : t \in {1, MaxClock}}

\* the values the update methods are called with
UpdValues(field) ==
    CASE field = "title" -> {PyStr(TitleUpper), PyStr(TitleBad)}
      [] field = "content" -> {PyStr(ContentCRLF), PyStr(ContentShort)}
      [] field = "tags" -> {PyNone, PyStr(<<"x", ",", " ", "y", ",">>), PyInt(5)}

\* Note(title, content, created_at=..., last_modified=...) at the clock
\* reading obj.clock
UpdConstruct ==
    /\ obj.op = "args"
    /\ obj' = [obj EXCEPT
                 !.op = "init",
                 !.note = NoteInit(TitleLower, ContentPlain, NoTags, None,
                                   obj.created_at, obj.last_modified, None,
                                   Dt(obj.clock), 1)]
    /\ UNCHANGED <<dirs, indexFile, files, nextId, last, live, gone, pc, loc,
                   saves, retired, query>>

\* time passes: datetime.now() never returns an earlier reading
UpdTick ==
    /\ obj.op \in {"init", "update"}
    /\ obj.clock < MaxClock
    /\ obj' = [obj EXCEPT !.clock = @ + 1]
    /\ UNCHANGED <<dirs, indexFile, files, nextId, last, live, gone, pc, loc,
                   saves, retired, query>>

\* an update method that stamps last_modified before it sets the field
UpdUpdateStampFirst(field, v) ==
    /\ obj.op \in {"init", "update"}
    /\ obj' = IF FieldAccepts(field, v)
              THEN [obj EXCEPT
                      !.op = "update", !.result = "ok", !.at = obj.clock,
                      !.field = field, !.value = v,
                      !.prev = obj.note.last_modified,
                      !.note = [obj.note EXCEPT ![field] = FieldStored(field, v),
                                                !.last_modified = Dt(obj.clock)]]
              ELSE [obj EXCEPT
                      !.op = "update", !.result = "ValueError", !.at = obj.clock,
                      !.field = field, !.value = v,
                      !.prev = obj.note.last_modified,
                      !.note = [obj.note EXCEPT !.last_modified = Dt(obj.clock)]]
    /\ UNCHANGED <<dirs, indexFile, files, nextId, last, live, gone, pc, loc,
                   saves, retired, query>>

\* update_title / update_content / update_tags: the field is set (the
\* descriptor may raise ValueError), then last_modified = now
UpdUpdate(field, v) ==
    /\ obj.op \in {"init", "update"}
    /\ obj' = IF FieldAccepts(field, v)
              THEN [obj EXCEPT
                      !.op = "update", !.result = "ok", !.at = obj.clock,
                      !.field = field, !.value = v,
                      !.prev = obj.note.last_modified,
                      !.note = [obj.note EXCEPT ![field] = FieldStored(field, v),
                                                !.last_modified = Dt(obj.clock)]]
              ELSE [obj EXCEPT
                      !.op = "update", !.result = "ValueError", !.at = obj.clock,
                      !.field = field, !.value = v,
                      !.prev = obj.note.last_modified]
    /\ UNCHANGED <<dirs, indexFile, files, nextId, last, live, gone, pc, loc,
                   saves, retired, query>>

UpdTitle == \E v \in UpdValues("title") : UpdUpdate("title", v)
UpdContent == \E v \in UpdValues("content") : UpdUpdate("content", v)
UpdTags == \E v \in UpdValues("tags") : UpdUpdate("tags", v)

\* no vault; the timestamp arguments of a Note(...) call about to be made
InitUpd ==
    /\ dirs = 0
    /\ indexFile = [exists |-> FALSE, doc |-> EmptyDoc]
    /\ files = <<>>
    /\ nextId = 1
    /\ last = NoCall
    /\ live = <<>>
    /\ gone = {}
    /\ pc = [p \in Procs |-> "idle"]
    /\ loc = [p \in Procs |-> NoLocals]
    /\ saves = <<>>
    /\ retired = {}
    /\ query = NoQuery
    /\ \E created_at \in UpdTimeArgs, last_modified \in UpdTimeArgs,
          clock \in 1..MaxClock :
        obj = [op |-> "args", created_at |-> created_at,
               last_modified |-> last_modified, clock |-> clock,
               note |-> NoNote, result |-> "none", at |-> 0, prev |-> Dt(0),
               field |-> "none", value |-> PyNone]

NextUpd == UpdConstruct \/ UpdTick \/ UpdTitle \/ UpdContent \/ UpdTags

\* a Note constructed and then updated while the clock advances
SpecUpd == InitUpd /\ [][NextUpd]_vars

\* ================================================================== claims
\* id of the index entry whose title is t (0 when there is none)
IdOfTitle(t) == FindNoteIdByTitle(LoadIndex(indexFile), t)

\* C1: after any sequence of create_note and delete_note_by_title calls,
\* failed ones included, every id of the index has a content file.
C1_IndexedIdsHaveContentFile == IndexIds \subseteq DOMAIN files

\* C2: no two index entries have the same title, titles compared exactly
\* and case-sensitively.
C2_TitlesUnique ==
    \A i, j \in 1..Len(indexFile.doc.notes) :
        i # j => indexFile.doc.notes[i].title # indexFile.doc.notes[j].title

\* the index holds two entries whose titles differ only in letter case
C2_Witness ==
    /\ Len(indexFile.doc.notes) = 2
    /\ IndexTitles = {TitleLower, TitleUpper}

\* C3: a create_note(T) issued while T is live (created with success, not
\* deleted with success since) never succeeds and leaves the index and the
\* content files as they were; when the directory check and the index read
\* of the call do not fail, what it raises is DuplicateTitleError.
C3_DuplicateRejected ==
    [][(last'.op = "create" /\ last'.title \in DOMAIN live) =>
          /\ last'.result # "ok"
          /\ last'.fault = "none" => last'.result = "DuplicateTitleError"
          /\ indexFile' = indexFile
          /\ files' = files
          /\ live' = live]_vars

\* a create_note of a live title was answered with DuplicateTitleError
C3_Witness ==
    /\ last.op = "create"
    /\ last.result = "DuplicateTitleError"
    /\ last.title \in DOMAIN live
    /\ Len(indexFile.doc.notes) = Cardinality(DOMAIN live)

\* C4: from a successful delete_note_by_title(T) until the next successful
\* create_note(T), the index has no entry titled T and get_note_by_title(T)
\* (its index read not failing) raises NoteNotFoundError.
C4_DeletedNotFound ==
    /\ \A t \in gone : t \notin IndexTitles
    /\ (last.op = "get" /\ last.title \in gone /\ last.fault = "none")
           => last.result = "NoteNotFoundError"

\* get_note_by_title of a deleted title raised NoteNotFoundError
C4_Witness ==
    /\ last.op = "get"
    /\ last.title \in gone
    /\ last.fault = "none"
    /\ last.result = "NoteNotFoundError"

\* C5: get_note_by_title(T) after a successful create_note(T, ...) returns
\* a note with the id, title, content and tags of the note create_note
\* returned.
C5_GetReturnsCreated ==
    (last.op = "get" /\ last.fault = "none" /\ last.title \in DOMAIN live) =>
        /\ last.result = "ok"
        /\ last.note.id = live[last.title].id
        /\ last.note.title = live[last.title].title
        /\ last.note.content = live[last.title].content
        /\ last.note.tags = live[last.title].tags

C7_EntryRemovedAfterFile ==
    [][last'.op = "delete" =>
          /\ last'.fault = "remove" =>
                /\ last'.result = "StorageError"
                /\ indexFile' = indexFile
                /\ files' = files
          /\ (last'.fault = "none" /\ IdOfTitle(last'.title) # 0
                /\ IdOfTitle(last'.title) \notin DOMAIN files) =>
                /\ last'.result = "ok"
                /\ IndexIds' = IndexIds \ {IdOfTitle(last'.title)}
          /\ \A id \in IndexIds \ IndexIds' : id \notin DOMAIN files']_vars

\* a delete failed on the removal of the content file: entry and file remain
C7_Witness ==
    /\ last.op = "delete"
    /\ last.fault = "remove"
    /\ last.result = "StorageError"
    /\ IdOfTitle(last.title) \in DOMAIN files

\* C8: a create_note that fails validation has created or changed no
\* directory, no content file and no index file.
C8_ValidationBeforeDiskMutation ==
    [][(last'.op = "create" /\ last'.result = "ValueError") =>
          /\ dirs' = dirs
          /\ indexFile' = indexFile
          /\ files' = files]_vars

\* C9: create_note returns a Note or raises the validation error,
\* DuplicateTitleError or StorageError, whichever filesystem call fails.
C9_CreateErrorsClosed ==
    last.op = "create" =>
        last.result \in {"ok", "ValueError", "DuplicateTitleError", "StorageError"}

RECURSIVE Chain(_)
\* the processes whose entries the k-th index save carries: the saver and,
\* through the document it had loaded, the chain of the save it had seen
Chain(k) ==
    IF k = 0 THEN {} ELSE {saves[k]} \cup Chain(loc[saves[k]].seen)

\* processes whose create_note returned a note
Returned == {p \in Procs : loc[p].result = "ok"}

\* C10: concurrent create_note calls: index.json is always the document of
\* the process that saved last, nothing merged in; it holds the entries of
\* that process and of the saves its loaded copy descends from, and no
\* others, so the note of a process whose create_note returned is missing
\* from the index when a process that loaded before that save saves after
\* it; the content file of every returned note is on disk either way.
C10_LastSaveWins ==
    /\ saves # <<>> => indexFile = SaveIndex(loc[saves[Len(saves)]].doc)
    /\ IndexIds = {loc[p].note.id : p \in Chain(Len(saves))}
    /\ \A p \in Returned : loc[p].note.id \in DOMAIN files

\* two create_note calls for different titles both returned, and the note
\* of one of them is not in the index while its content file is on disk
C10_Witness ==
    \E p, q \in Returned :
        /\ loc[p].title # loc[q].title
        /\ loc[p].note.id \notin IndexIds
        /\ loc[p].note.id \in DOMAIN files
        /\ loc[q].note.id \in IndexIds

\* C11: once a delete has removed an id from the index, the id is never in
\* the index again; every id that enters the index is one that no earlier
\* call was given (generate_note_id taken as never repeating a value).
C11_RetiredIdsStayOut ==
    [][/\ \A r \in retired' : r.id \notin IndexIds'
       /\ \A id \in IndexIds' \ IndexIds : id >= nextId]_vars

\* a title was deleted and created again: the new entry has another id
C11_Witness ==
    /\ last.op = "create"
    /\ last.result = "ok"
    /\ last.note.id \in IndexIds
    /\ \E r \in retired : r.title = last.title /\ r.id # last.note.id

\* C17: get_note_by_title(T) (no read failing) raises NoteNotFoundError if
\* and only if no index entry has title T, and the error then carries T.
C17_NotFoundIffTitleAbsent ==
    (last.op = "get" /\ last.fault = "none") =>
        /\ last.result = "NoteNotFoundError" <=> last.title \notin IndexTitles
        /\ last.result = "NoteNotFoundError" => last.ident = "title"

\* ids of a list of notes
NoteIds(notes) == {notes[i].id : i \in 1..Len(notes)}

\* an index entry matches a term: the lower-cased term is a substring of the
\* lower-cased title, of a lower-cased tag, or of the lower-cased content read
Matches(e, term) ==
    \/ IsSubstr(Lower(term), Lower(e.title))
    \/ \E i \in 1..Len(e.tags) : IsSubstr(Lower(term), Lower(e.tags[i]))
    \/ e.id \in DOMAIN files /\ IsSubstr(Lower(term), Lower(ReadText(files[e.id])))

\* a search_notes call has just returned its list
Searched == query' # query /\ query'.op = "search" /\ query'.fault = "none"

\* C12: search_notes(term) returns exactly the indexed notes whose content
\* file can be read and that match the term in title, tag or content, each
\* of them once.
C12_SearchExactlyMatching ==
    [][Searched =>
        /\ query'.result = "ok"
        /\ NoteIds(query'.notes) =
              {id \in IndexIds \cap DOMAIN files :
                  id \notin query'.unread
                  /\ Matches(Entry(indexFile.doc, id), query'.term)}
        /\ Len(query'.notes) = Cardinality(NoteIds(query'.notes))]_vars

\* C13: on a fixed vault, search_notes returns the same notes for two terms
\* that differ only in letter case.
C13_SearchCaseInsensitive ==
    [][Searched =>
        \A t \in QTerms :
            Lower(t) = Lower(query'.term) =>
                SearchNotes(t, query'.unread, "none").notes = query'.notes]_vars

\* a search found a note under a term whose other-case spelling is also a
\* term of the model
C13_Witness ==
    /\ query.op = "search"
    /\ query.notes # <<>>
    /\ \E t \in QTerms : t # query.term /\ Lower(t) = Lower(query.term)

\* C14: with content files missing or unreadable, search_notes does not
\* raise, leaves those notes out and returns every other note it returns
\* when all files can be read.
C14_SearchSkipsUnreadable ==
    [][Searched =>
        /\ query'.result = "ok"
        /\ NoteIds(query'.notes) \subseteq (DOMAIN files \ query'.unread)
        /\ SelectSeq(SearchNotes(query'.term, {}, "none").notes,
                     LAMBDA n : n.id \notin query'.unread) = query'.notes]_vars

\* a search with an unreadable matching note returned another note
C14_Witness ==
    /\ query.op = "search"
    /\ query.unread # {}
    /\ query.notes # <<>>
    /\ query.result = "ok"

\* C15: get_all_tags_with_counts() maps every tag carried by some note to the
\* number of distinct notes carrying it, and has no other key.
C15_TagCountsDistinctNotes ==
    [][(query' # query /\ query'.op = "tags" /\ query'.fault = "none") =>
        /\ query'.result = "ok"
        /\ DOMAIN query'.counts = DocTags(indexFile.doc)
        /\ \A t \in DOMAIN query'.counts :
              query'.counts[t] =
                 Cardinality({i \in 1..Len(indexFile.doc.notes) :
                    \E j \in 1..Len(indexFile.doc.notes[i].tags) :
                        indexFile.doc.notes[i].tags[j] = t})]_vars

\* C16 as stated: the Note rebuilt by from_dict(note.to_dict(), note.content)
\* equals the note on id, title, content, tags, created_at, last_modified and
\* filename, whatever the tags argument was.
C16_RoundTripAllFields ==
    obj.op = "roundtrip" => obj.back = obj.note

\* C16: the rebuilt Note equals the note on id, title, content, created_at,
\* last_modified and filename, and on tags when tags were given; a note
\* constructed without tags (tags None) comes back with the empty list.
C16_RoundTripTagsNoneToEmpty ==
    obj.op = "roundtrip" =>
        obj.back = [obj.note EXCEPT !.tags = IF @.kind = "none"
                                              THEN TagList(<<>>) ELSE @]

\* a note without tags and with a microsecond timestamp was round-tripped
C16_Witness ==
    /\ obj.op = "roundtrip"
    /\ obj.note.tags.kind = "none"
    /\ obj.note.created_at.usec # 0
    /\ obj.note.filename = CustomFilename

\* an export_notes call has just returned
Exported ==
    /\ query' # query
    /\ query'.op = "export"
    /\ query'.fault = "none"
    /\ query'.unwritable = {}

\* C18: export_notes on a vault without notes (no index file, or an index
\* with an empty notes map) creates the output directory, writes no file and
\* raises nothing.
C18_EmptyExportCreatesDirectory ==
    [][(Exported /\ IndexIds = {}) =>
        /\ query'.result = "ok"
        /\ query'.outDir
        /\ query'.out = <<>>]_vars

\* C19: after export_notes, every indexed note with a readable content file
\* has the file <sanitized title>.txt in the output directory, holding
\* "Title: <title>", an empty line and the content as it was stored.
C19_ExportFilePerNote ==
    [][Exported =>
        \A id \in (IndexIds \cap DOMAIN files) \ query'.unread :
            LET e == Entry(indexFile.doc, id)
            IN  /\ SafeTitle(e.title) \in DOMAIN query'.out
                /\ query'.out[SafeTitle(e.title)] = ExportText(e.title, files[id])]_vars

\* C20: with the content of indexed notes missing or unreadable, export_notes
\* returns without raising and the output directory holds what the export
\* of the other notes alone writes.
C20_ExportSkipsUnreadable ==
    [][(Exported /\ indexFile.doc.hasNotes) =>
        /\ query'.result = "ok"
        /\ query'.out =
              ExportFrom([indexFile.doc EXCEPT !.notes =
                              SelectSeq(@, LAMBDA m : m.id \in DOMAIN files
                                                      /\ m.id \notin query'.unread)],
                         {}, 1, <<>>)]_vars

\* an export skipped an unreadable note and wrote the file of another
C20_Witness ==
    /\ query.op = "export"
    /\ query.result = "ok"
    /\ query.unread # {}
    /\ query.out # <<>>

\* C21: an OS error on the write of one note's export file makes
\* export_notes skip that note and export the others; only the failure to
\* create the output directory ends the call with OSError.
C21_ExportSkipsUnwritable ==
    [][(query' # query /\ query'.op = "export" /\ query'.fault # "load_read") =>
        /\ query'.result = "OSError" <=> query'.fault = "mkdir"
        /\ (query'.fault = "none" /\ indexFile.doc.hasNotes) =>
              query'.out =
                 ExportFrom([indexFile.doc EXCEPT !.notes =
                                 SelectSeq(@, LAMBDA m : m.id \notin query'.unwritable)],
                            query'.unread, 1, <<>>)]_vars

\* C22: export_notes of n readable notes with pairwise distinct titles
\* leaves exactly n files in the output directory, one per note.
C22_ExportOneFilePerNote ==
    [][(Exported /\ query'.unread = {} /\ IndexIds \subseteq DOMAIN files
          /\ indexFile.doc.hasNotes) =>
        /\ Cardinality(DOMAIN query'.out) = Cardinality(IndexIds)
        /\ \A id \in IndexIds :
              LET e == Entry(indexFile.doc, id)
              IN  /\ SafeTitle(e.title) \in DOMAIN query'.out
                  /\ query'.out[SafeTitle(e.title)] =
                        ExportText(e.title, ReadText(files[id]))]_vars

\* the field of the given name was set, by the constructor or an update
FieldDone(field) == obj.op = "done" /\ obj.field = field

\* the Python string value v has every character alphanumeric or whitespace
TitleChars(v) == \A i \in 1..Len(v.str) : v.str[i] \in AlnumChars \cup SpaceChars

\* C23 as stated: a title is accepted if and only if it is a non-empty
\* string of at most 100 characters, all alphanumeric or whitespace.
C23_TitleAcceptedIffNonEmpty ==
    FieldDone("title") =>
        (obj.result = "ok" <=>
            /\ obj.value.type = "str"
            /\ obj.value.str # <<>>
            /\ Len(obj.value.str) <= 100
            /\ TitleChars(obj.value))

\* C23: a title is accepted if and only if it is a string of at most 100
\* characters, all alphanumeric or whitespace (the empty string included);
\* any other value raises ValueError, the note is not constructed, and an
\* existing note keeps its title.
C23_TitleAccepted ==
    FieldDone("title") =>
        /\ obj.result = "ok" <=>
              /\ obj.value.type = "str"
              /\ Len(obj.value.str) <= 100
              /\ TitleChars(obj.value)
        /\ obj.result = "ok" => obj.after.title = obj.value.str
        /\ obj.result # "ok" =>
              /\ obj.result = "ValueError"
              /\ obj.after = IF obj.via = "init" THEN NoNote ELSE obj.before

\* a title of exactly 100 characters was accepted
C23_Witness ==
    /\ FieldDone("title")
    /\ obj.result = "ok"
    /\ Len(obj.value.str) = 100

\* C24: content is accepted if and only if it is a string of length n with
\* 10 <= n <= 10000; None and every other value raise ValueError.
C24_ContentAccepted ==
    FieldDone("content") =>
        /\ obj.result = "ok" <=>
              /\ obj.value.type = "str"
              /\ Len(obj.value.str) >= 10
              /\ Len(obj.value.str) <= 10000
        /\ obj.result = "ok" => obj.after.content = obj.value.str
        /\ obj.result # "ok" => obj.result = "ValueError"

\* a content of exactly 10 characters was accepted
C24_Witness ==
    /\ FieldDone("content")
    /\ obj.result = "ok"
    /\ Len(obj.value.str) = 10

\* the trimmed, non-empty pieces of a list of strings, in order
Trimmed(seq) ==
    SelectSeq([i \in 1..Len(seq) |-> Strip(seq[i])], LAMBDA t : t # <<>>)

\* the tags a str or list-of-str value names
NamedTags(v) ==
    Trimmed(IF v.type = "str" THEN SplitComma(v.str) ELSE ListVals(v))

\* C25: a tags value given as a string or a list of strings is stored as its
\* trimmed, non-empty tags in input order; a value other than None is
\* rejected if and only if it is neither str nor list, a list element is
\* not a str, more than 20 tags remain or a remaining tag is longer than 30.
C25_TagsAccepted ==
    (FieldDone("tags") /\ obj.value.type # "NoneType") =>
        LET typed == \/ obj.value.type = "str"
                     \/ /\ obj.value.type = "list"
                        /\ \A i \in 1..Len(obj.value.items) :
                              obj.value.items[i].type = "str"
        IN  /\ obj.result # "ok" <=>
                  \/ ~typed
                  \/ Len(NamedTags(obj.value)) > 20
                  \/ \E i \in 1..Len(NamedTags(obj.value)) :
                        Len(NamedTags(obj.value)[i]) > 30
            /\ obj.result = "ok" => obj.after.tags = TagList(NamedTags(obj.value))
            /\ obj.result # "ok" => obj.result = "ValueError"

\* 21 list entries of which 20 remain after the empty one is dropped were
\* accepted
C25_Witness ==
    /\ FieldDone("tags")
    /\ obj.result = "ok"
    /\ obj.value.type = "list"
    /\ Len(obj.value.items) = 21
    /\ Len(obj.after.tags.val) = 20

\* C26: every constructed Note, and every Note after any updates, has
\* last_modified >= created_at; last_modified not supplied equals created_at;
\* a successful update sets last_modified to the current time, which is not
\* earlier than the value it replaces.
C26_LastModifiedNotBeforeCreated ==
    obj.op \in {"init", "update"} =>
        /\ TimeLE(obj.note.created_at, obj.note.last_modified)
        /\ (obj.op = "init" /\ obj.last_modified = None) =>
              obj.note.last_modified = obj.note.created_at
        /\ (obj.op = "update" /\ obj.result = "ok" /\ obj.at = obj.clock) =>
              /\ obj.note.last_modified = Dt(obj.clock)
              /\ TimeLE(obj.prev, obj.note.last_modified)

\* C27: the filename recorded in the index entry of a note is the name of
\* the content file written for it: <id>.txt, the same for the life of the
\* note.
C27_FilenameIsContentFile ==
    \A id \in IndexIds :
        Entry(indexFile.doc, id).filename = ContentFileName(id)

\* a listing call (load_index, get_all_titles, get_all_tags_with_counts,
\* search_notes) has just returned or raised
Listed == query' # query /\ query'.op \in {"load", "titles", "tags", "search"}

\* C28: with no index file, load_index returns the empty document and
\* get_all_titles, get_all_tags_with_counts and search_notes return empty
\* results; with an index file that is not valid JSON, load_index raises
\* StorageError wrapping the parse error.
C28_MissingIndexIsEmpty ==
    [][Listed =>
        /\ (query'.fault = "none" /\ ~indexFile.exists) =>
              /\ query'.result = "ok"
              /\ query'.doc = EmptyDoc
              /\ query'.titles = <<>>
              /\ query'.counts = <<>>
              /\ query'.notes = <<>>
        /\ (query'.op = "load" /\ query'.fault = "load_json") =>
              /\ query'.result = "StorageError"
              /\ query'.cause = "JSONDecodeError"]_vars

\* load_index was called on an index file that is not valid JSON
C28_Witness ==
    /\ query.op = "load"
    /\ query.fault = "load_json"
    /\ query.result = "StorageError"

\* C29: when the read of the index file raises an OSError other than
\* file-not-found, get_all_titles, search_notes and get_all_tags_with_counts
\* raise StorageError wrapping that OSError.
C29_ReadErrorWrapped ==
    [][(Listed /\ query'.op # "load" /\ query'.fault = "load_read") =>
        /\ query'.result = "StorageError"
        /\ query'.cause = "OSError"]_vars

\* C30: get_all_titles returns one title per index entry, and the titles
\* are those created with success and not deleted with success since, each
\* once.
C30_TitlesAreLiveTitles ==
    [][(Listed /\ query'.op = "titles" /\ query'.fault = "none") =>
        /\ query'.result = "ok"
        /\ Len(query'.titles) = Len(indexFile.doc.notes)
        /\ {query'.titles[i] : i \in 1..Len(query'.titles)} = DOMAIN live
        /\ Cardinality(DOMAIN live) = Len(query'.titles)]_vars

\* get_all_titles returned two titles after a delete and a new create
C30_Witness ==
    /\ query.op = "titles"
    /\ query.result = "ok"
    /\ Len(query.titles) = 2
    /\ retired # {}

\* C31: in create_note the content file is written before the index is
\* saved with the entry, so at every intermediate step of a create every id
\* the index references has a content file.
C31_IndexRefsHaveFileDuringCreate ==
    (\E p \in Procs : pc[p] \in CreateSteps) => IndexIds \subseteq DOMAIN files

\* positions of the index entries whose title is t
EntriesTitled(t) ==
    {i \in 1..Len(indexFile.doc.notes) : indexFile.doc.notes[i].title = t}

\* C32: two create_note calls with the same title by two processes, both
\* duplicate checks made before either index save, both return success; when
\* the second saver loaded the index after the first save, the index then
\* holds two entries with that title.
C32_SameTitleCreatedTwice ==
    \A p, q \in Procs :
        (/\ p # q
         /\ loc[p].title = loc[q].title
         /\ saves # <<>>
         /\ saves[Len(saves)] = q
         /\ p \in Chain(loc[q].seen)) =>
            /\ {p, q} \subseteq Returned
            /\ loc[p].note.id # loc[q].note.id
            /\ Cardinality(EntriesTitled(loc[q].title)) >= 2

\* two processes created the same title and both entries are in the index
C32_Witness ==
    \E p, q \in Returned :
        /\ p # q
        /\ loc[p].title = loc[q].title
        /\ {loc[p].note.id, loc[q].note.id} \subseteq IndexIds
        /\ Cardinality(EntriesTitled(loc[p].title)) = 2

\* C33: when a create_note of another title saves the index after a
\* delete_note_by_title(X) saved it, having loaded it before that save, the
\* index it writes holds X's entry again: the id the delete removed is back
\* in the index while X's content file is gone.
C33_DeletedEntryResurrected ==
    [][\A q \in Procs : (pc[q] = "save" /\ pc'[q] = "done") =>
          \A r \in retired :
              (r.id \in DocIds(loc[q].doc) /\ r.title # loc[q].title) =>
                  /\ r.id \in IndexIds'
                  /\ Entry(indexFile'.doc, r.id).title = r.title
                  /\ r.id \notin DOMAIN files']_vars

\* a create_note of another title has returned, and the index holds the
\* entry a delete had removed, without its content file
C33_Witness ==
    \E q \in Procs, r \in retired :
        /\ pc[q] = "done"
        /\ loc[q].result = "ok"
        /\ loc[q].note.id \in IndexIds
        /\ loc[q].title # r.title
        /\ r.id \in IndexIds
        /\ r.id \notin DOMAIN files

VaultAnswers ==
    [titles |-> GetAllTitles("none"),
     get |-> [t \in Titles |->
                 [result |-> GetOutcome(t, "none").result,
                  note |-> GetOutcome(t, "none").note]],
     duplicate |-> [t \in Titles |-> FindNoteIdByTitle(LoadIndex(indexFile), t) # 0],
     search |-> [term \in QTerms |-> SearchNotes(term, {}, "none")],
     tags |-> GetAllTagsWithCounts("none"),
     export |-> ExportNotes({}, {}, "none")]

\* the vault after the step differs from the vault before it in content
\* files of ids that are not in the index, and in nothing else
OnlyOrphansDiffer ==
    /\ indexFile' = indexFile
    /\ files' # files
    /\ \A id \in IndexIds :
          /\ id \in DOMAIN files <=> id \in DOMAIN files'
          /\ id \in DOMAIN files => files'[id] = files[id]

\* C35: two vaults that differ only in content files of ids the index does
\* not hold give the same results for get_all_titles, get_note_by_title,
\* search_notes, get_all_tags_with_counts, export_notes and the duplicate
\* check of create_note.
C35_OrphanFilesNotObserved ==
    [][OnlyOrphansDiffer => VaultAnswers' = VaultAnswers]_vars

\* create_note has written its content file and not yet saved the index:
\* next to the indexed notes the vault holds a content file that no index
\* entry names, with the text the search looks for
C35_Witness ==
    \E p \in Procs :
        /\ pc[p] = "load"
        /\ IndexIds # {}
        /\ IndexIds \subseteq DOMAIN files
        /\ loc[p].note.id \in DOMAIN files \ IndexIds
        /\ IsSubstr(TitleLower, ReadText(files[loc[p].note.id]))

\* C36: a successful create_note adds one index entry, keyed by the new
\* note's id, and one content file; a successful delete_note_by_title(T)
\* removes the index entry titled T and that entry's content file; every
\* other index entry and every other content file stays as it was.
C36_CreateDeleteFrame ==
    [][/\ (last' # last /\ last'.op = "create" /\ last'.result = "ok") =>
              /\ last'.note.id \notin IndexIds
              /\ IndexIds' = IndexIds \cup {last'.note.id}
              /\ Len(indexFile'.doc.notes) = Len(indexFile.doc.notes) + 1
              /\ Entry(indexFile'.doc, last'.note.id).title = last'.title
              /\ \A i \in IndexIds : Entry(indexFile'.doc, i) = Entry(indexFile.doc, i)
              /\ last'.note.id \notin DOMAIN files
              /\ DOMAIN files' = DOMAIN files \cup {last'.note.id}
              /\ \A i \in DOMAIN files : files'[i] = files[i]
       /\ (last' # last /\ last'.op = "delete" /\ last'.result = "ok") =>
              /\ IdOfTitle(last'.title) \in IndexIds
              /\ IndexIds' = IndexIds \ {IdOfTitle(last'.title)}
              /\ Len(indexFile'.doc.notes) = Len(indexFile.doc.notes) - 1
              /\ \A i \in IndexIds' : Entry(indexFile'.doc, i) = Entry(indexFile.doc, i)
              /\ DOMAIN files' = DOMAIN files \ {IdOfTitle(last'.title)}
              /\ \A i \in DOMAIN files' : files'[i] = files[i]]_vars

\* a delete has succeeded in a vault that holds another note, whose index
\* entry and content file are still there
C36_Witness ==
    /\ last.op = "delete"
    /\ last.result = "ok"
    /\ ~last.missing
    /\ IndexIds # {}
    /\ IndexIds \subseteq DOMAIN files
    /\ \E r \in retired : r.title = last.title /\ r.id \notin DOMAIN files

\* the step is a call of get_note_by_title, get_all_titles, search_notes,
\* get_all_tags_with_counts or export_notes
ReadCall ==
    \/ last' # last /\ last'.op = "get"
    \/ query' # query /\ query'.op \in {"titles", "search", "tags", "export"}

\* C37: get_note_by_title, get_all_titles, search_notes and
\* get_all_tags_with_counts, returning or raising, leave the vault
\* directories, the index file and every content file as they were;
\* export_notes writes its output directory and nothing of the vault.
C37_ReadsLeaveVaultAlone ==
    [][ReadCall =>
          /\ dirs' = dirs
          /\ indexFile' = indexFile
          /\ files' = files
          /\ (query'.outDir \/ query'.out # <<>>) => query'.op = "export"]_vars

\* in a vault that was never created a get_note_by_title has raised and an
\* export has returned, and the vault has no directory still
C37_Witness ==
    /\ dirs = 0
    /\ ~indexFile.exists
    /\ last.op = "get"
    /\ last.result = "NoteNotFoundError"
    /\ query.op = "export"
    /\ query.result = "ok"

\* the step is a call of update_title, update_content or update_tags
Updated == obj'.op = "update" /\ obj' # obj /\ obj'.clock = obj.clock

\* C38: an update_title, update_content or update_tags called with a value
\* that fails validation raises the validation error and leaves title,
\* content, tags and last_modified as they were; a successful update changes
\* the targeted field and last_modified only, id, created_at and filename
\* staying the same.
C38_FailedUpdateChangesNothing ==
    [][Updated =>
          /\ obj'.result = "ValueError" <=> ~FieldAccepts(obj'.field, obj'.value)
          /\ obj'.result = "ValueError" =>
                \A f \in {"title", "content", "tags", "last_modified", "id",
                          "created_at", "filename"} : obj'.note[f] = obj.note[f]
          /\ obj'.result = "ok" =>
                /\ obj'.note[obj'.field] = FieldStored(obj'.field, obj'.value)
                /\ \A f \in {"title", "content", "tags", "id", "created_at",
                             "filename"} \ {obj'.field} : obj'.note[f] = obj.note[f]]_vars

\* an update with an invalid value has raised on a note whose last_modified
\* is earlier than the clock reading of the call
C38_Witness ==
    /\ obj.op = "update"
    /\ obj.result = "ValueError"
    /\ obj.field = "title"
    /\ obj.note.title = TitleLower
    /\ obj.note.last_modified = obj.prev
    /\ obj.note.last_modified.sec < obj.at

\* C39: with an index file that holds malformed JSON, create_note raises
\* StorageError before it writes a content file: no content file is added
\* and the index file stays as it is; delete_note_by_title raises
\* StorageError too and removes no content file.
C39_MalformedIndexStopsCall ==
    [][(last' # last /\ last'.op \in {"create", "delete"}
            /\ last'.fault = "find_json") =>
          /\ last'.result = "StorageError"
          /\ files' = files
          /\ indexFile' = indexFile
          /\ nextId' = nextId]_vars

\* a create_note has raised StorageError on a malformed index file in a
\* vault that holds a note, and no content file is without index entry
C39_Witness ==
    /\ last.op = "create"
    /\ last.fault = "find_json"
    /\ last.result = "StorageError"
    /\ IndexIds # {}
    /\ DOMAIN files = IndexIds

====
